---------------------------- MODULE Spec2Model ----------------------------
(***************************************************************************)
(* SonarQubeChecker: the translation resolver (src/src/i18n.rs) and the    *)
(* Markdown report assembler (src/src/report.rs).                          *)
(*                                                                         *)
(* A Rust String is a sequence of characters.  A character is a one-       *)
(* character TLA+ string; a character outside ASCII is written as the name *)
(* of its code point ("U+1F4CA"), one sequence element per Unicode scalar. *)
(* Option<T> is a sequence of length 0 (None) or 1 (Some).                 *)
(***************************************************************************)
EXTENDS Integers, Sequences, FiniteSets, TLC

VARIABLES
    dataset,        \* build input: what include_str!("../translations.yaml") holds
    TRANSLATIONS,   \* the Lazy<Translations> static: <<>> until first forced
    generator,      \* Option<MarkdownReportGenerator>
    clock,          \* the wall clock read by Utc::now()
    ticks,          \* seconds the clock has advanced during the run
    entry,          \* the public function the run calls
    arg_s,          \* &str argument (from_str: the text; get_translation: the key)
    arg_language,   \* Language argument
    arg_date,       \* Option<&str> argument of format_analysis_date
    arg_issues,     \* &[IssueData] argument of generate_issues_table
    arg_projects,   \* &[ProjectData] argument of generate_report
    ret_language,   \* Option: the Language returned by from_str
    ret_string,     \* Option: the String returned by the last call
    reports,        \* the calls of generate_report so far: <<[now, text], ...>>
    pc,             \* where a run of main stands; "idle" in a run that is not main
    cli,            \* the options given on the command line, each an Option of text
    env,            \* the SONARQUBE_* variables of the environment, after dotenv
    main_args,      \* Option<Args>: what Args::parse() returned
    client,         \* Option<SonarQubeClient>
    project_keys,   \* main's project_keys
    key_index,      \* the position of main's loop in project_keys
    main_last_analysis, \* main's last_analysis, between the two fetches of a project
    main_projects_data, \* main's projects_data
    requests,       \* the requests sent so far, in order
    http_response,  \* Option: what came back for the latest request
    fetch_result,   \* Option: the Result the latest client call returned
    stdout,         \* the text printed to standard output
    output_file,    \* Option: the file at the output path, [path, content]
    exit_code       \* Option: the exit status of the process

vars == <<dataset, TRANSLATIONS, generator, clock, ticks, entry, arg_s,
          arg_language, arg_date, arg_issues, arg_projects, ret_language,
          ret_string, reports, pc, cli, env, main_args, client, project_keys,
          key_index, main_last_analysis, main_projects_data, requests, http_response,
          fetch_result, stdout, output_file, exit_code>>

\* The state of main and of the client
main_vars == <<pc, cli, env, main_args, client, project_keys, key_index,
               main_last_analysis, main_projects_data, requests, http_response,
               fetch_result, stdout, output_file, exit_code>>

-----------------------------------------------------------------------------
(* Bounds of the model *)

MaxLangLen == 2
MaxFieldLen == 2
MaxIssues == 2
MaxProjects == 2
MaxTicks == 1
MaxReports == 2

-----------------------------------------------------------------------------
(* Strings *)

None == <<>>
Some(x) == <<x>>

RECURSIVE SeqsUpTo(_, _)
SeqsUpTo(S, n) ==
    IF n = 0 THEN {<<>>}
    ELSE LET shorter == SeqsUpTo(S, n - 1)
         IN  shorter \cup {Append(s, c) : s \in {t \in shorter : Len(t) = n - 1}, c \in S}

Upper == <<"A", "B", "C", "D", "E", "F", "G", "H", "I", "J", "K", "L", "M",
           "N", "O", "P", "Q", "R", "S", "T", "U", "V", "W", "X", "Y", "Z">>
Lower == <<"a", "b", "c", "d", "e", "f", "g", "h", "i", "j", "k", "l", "m",
           "n", "o", "p", "q", "r", "s", "t", "u", "v", "w", "x", "y", "z">>

\* char::to_lowercase on the characters of the model
to_lowercase_char(c) ==
    IF \E i \in DOMAIN Upper : Upper[i] = c
    THEN Lower[CHOOSE i \in DOMAIN Upper : Upper[i] = c]
    ELSE c

\* str::to_lowercase
to_lowercase(s) == [i \in DOMAIN s |-> to_lowercase_char(s[i])]

RECURSIVE replace_first(_, _, _)
replace_first(s, from, to) ==
    IF s = <<>> THEN <<>>
    ELSE IF Head(s) = from THEN to \o Tail(s)
    ELSE <<Head(s)>> \o replace_first(Tail(s), from, to)

\* str::replace(from, to) with a one-character pattern
RECURSIVE replace(_, _, _)
replace(s, from, to) ==
    IF s = <<>> THEN <<>>
    ELSE (IF Head(s) = from THEN to ELSE <<Head(s)>>) \o replace(Tail(s), from, to)

-----------------------------------------------------------------------------
(* i18n.rs *)

Languages == {"En", "Ru"}

\* The keys the report generator looks up
LabelKeys == {<<"r", "e", "p", "o", "r", "t", "_", "t", "i", "t", "l", "e">>, <<"g", "e", "n", "e", "r", "a", "t", "e", "d">>, <<"p", "r", "o", "j", "e", "c", "t">>, <<"l", "a", "s", "t", "_", "a", "n", "a", "l", "y", "s", "i", "s">>,
              <<"l", "a", "t", "e", "s", "t", "_", "i", "s", "s", "u", "e", "s">>, <<"n", "o", "_", "a", "n", "a", "l", "y", "s", "i", "s", "_", "a", "v", "a", "i", "l", "a", "b", "l", "e">>, <<"n", "o", "_", "o", "p", "e", "n", "_", "i", "s", "s", "u", "e", "s">>,
              <<"s", "e", "v", "e", "r", "i", "t", "y">>, <<"m", "e", "s", "s", "a", "g", "e">>, <<"c", "o", "m", "p", "o", "n", "e", "n", "t">>, <<"l", "i", "n", "e">>}

\* HashMap::get
Get(map, key) == IF key \in DOMAIN map THEN Some(map[key]) ELSE None

FallbackTranslationsIncomplete ==
    [en |-> <<"r", "e", "p", "o", "r", "t", "_", "t", "i", "t", "l", "e">> :> <<"S", "o", "n", "a", "r", "Q", "u", "b", "e", " ", "A", "n", "a", "l", "y", "s", "i", "s", " ", "R", "e", "p", "o", "r", "t">>
         @@ <<"g", "e", "n", "e", "r", "a", "t", "e", "d">> :> <<"G", "e", "n", "e", "r", "a", "t", "e", "d">>
         @@ <<"p", "r", "o", "j", "e", "c", "t">> :> <<"P", "r", "o", "j", "e", "c", "t">>
         @@ <<"l", "a", "s", "t", "_", "a", "n", "a", "l", "y", "s", "i", "s">> :> <<"L", "a", "s", "t", " ", "A", "n", "a", "l", "y", "s", "i", "s">>
         @@ <<"l", "a", "t", "e", "s", "t", "_", "i", "s", "s", "u", "e", "s">> :> <<"L", "a", "t", "e", "s", "t", " ", "I", "s", "s", "u", "e", "s">>
         @@ <<"n", "o", "_", "o", "p", "e", "n", "_", "i", "s", "s", "u", "e", "s">> :> <<"N", "o", " ", "o", "p", "e", "n", " ", "i", "s", "s", "u", "e", "s", " ", "f", "o", "u", "n", "d", ".">>
         @@ <<"s", "e", "v", "e", "r", "i", "t", "y">> :> <<"S", "e", "v", "e", "r", "i", "t", "y">>
         @@ <<"m", "e", "s", "s", "a", "g", "e">> :> <<"M", "e", "s", "s", "a", "g", "e">>
         @@ <<"c", "o", "m", "p", "o", "n", "e", "n", "t">> :> <<"C", "o", "m", "p", "o", "n", "e", "n", "t">>,
     ru |-> <<>>]

\* The table of the unwrap_or_else closure: used when the dataset does not parse
FallbackTranslations ==
    [en |-> <<"r", "e", "p", "o", "r", "t", "_", "t", "i", "t", "l", "e">> :> <<"S", "o", "n", "a", "r", "Q", "u", "b", "e", " ", "A", "n", "a", "l", "y", "s", "i", "s", " ", "R", "e", "p", "o", "r", "t">>
         @@ <<"g", "e", "n", "e", "r", "a", "t", "e", "d">> :> <<"G", "e", "n", "e", "r", "a", "t", "e", "d">>
         @@ <<"p", "r", "o", "j", "e", "c", "t">> :> <<"P", "r", "o", "j", "e", "c", "t">>
         @@ <<"l", "a", "s", "t", "_", "a", "n", "a", "l", "y", "s", "i", "s">> :> <<"L", "a", "s", "t", " ", "A", "n", "a", "l", "y", "s", "i", "s">>
         @@ <<"l", "a", "t", "e", "s", "t", "_", "i", "s", "s", "u", "e", "s">> :> <<"L", "a", "t", "e", "s", "t", " ", "I", "s", "s", "u", "e", "s">>
         @@ <<"n", "o", "_", "a", "n", "a", "l", "y", "s", "i", "s", "_", "a", "v", "a", "i", "l", "a", "b", "l", "e">> :> <<"N", "o", " ", "a", "n", "a", "l", "y", "s", "i", "s", " ", "a", "v", "a", "i", "l", "a", "b", "l", "e">>
         @@ <<"n", "o", "_", "o", "p", "e", "n", "_", "i", "s", "s", "u", "e", "s">> :> <<"N", "o", " ", "o", "p", "e", "n", " ", "i", "s", "s", "u", "e", "s", " ", "f", "o", "u", "n", "d", ".">>
         @@ <<"s", "e", "v", "e", "r", "i", "t", "y">> :> <<"S", "e", "v", "e", "r", "i", "t", "y">>
         @@ <<"m", "e", "s", "s", "a", "g", "e">> :> <<"M", "e", "s", "s", "a", "g", "e">>
         @@ <<"c", "o", "m", "p", "o", "n", "e", "n", "t">> :> <<"C", "o", "m", "p", "o", "n", "e", "n", "t">>
         @@ <<"l", "i", "n", "e">> :> <<"L", "i", "n", "e">>,
     ru |-> <<>>]

\* The tables of the bundled translations.yaml, as the tests read them back
BundledTranslations ==
    [en |-> <<"r", "e", "p", "o", "r", "t", "_", "t", "i", "t", "l", "e">> :> <<"U+1F4CA", " ", "S", "o", "n", "a", "r", "Q", "u", "b", "e", " ", "A", "n", "a", "l", "y", "s", "i", "s", " ", "R", "e", "p", "o", "r", "t">>
         @@ <<"g", "e", "n", "e", "r", "a", "t", "e", "d">> :> <<"U+1F552", " ", "G", "e", "n", "e", "r", "a", "t", "e", "d">>
         @@ <<"p", "r", "o", "j", "e", "c", "t">> :> <<"U+1F4C1", " ", "P", "r", "o", "j", "e", "c", "t">>
         @@ <<"l", "a", "s", "t", "_", "a", "n", "a", "l", "y", "s", "i", "s">> :> <<"U+1F4C5", " ", "L", "a", "s", "t", " ", "A", "n", "a", "l", "y", "s", "i", "s">>
         @@ <<"l", "a", "t", "e", "s", "t", "_", "i", "s", "s", "u", "e", "s">> :> <<"U+1F6A8", " ", "L", "a", "t", "e", "s", "t", " ", "I", "s", "s", "u", "e", "s">>
         @@ <<"n", "o", "_", "a", "n", "a", "l", "y", "s", "i", "s", "_", "a", "v", "a", "i", "l", "a", "b", "l", "e">> :> <<"U+26A0", "U+FE0F", " ", "N", "o", " ", "a", "n", "a", "l", "y", "s", "i", "s", " ", "a", "v", "a", "i", "l", "a", "b", "l", "e">>
         @@ <<"n", "o", "_", "o", "p", "e", "n", "_", "i", "s", "s", "u", "e", "s">> :> <<"U+2705", " ", "N", "o", " ", "o", "p", "e", "n", " ", "i", "s", "s", "u", "e", "s", " ", "f", "o", "u", "n", "d", ".">>
         @@ <<"s", "e", "v", "e", "r", "i", "t", "y">> :> <<"U+1F525", " ", "S", "e", "v", "e", "r", "i", "t", "y">>
         @@ <<"m", "e", "s", "s", "a", "g", "e">> :> <<"U+1F4AC", " ", "M", "e", "s", "s", "a", "g", "e">>
         @@ <<"c", "o", "m", "p", "o", "n", "e", "n", "t">> :> <<"U+1F9E9", " ", "C", "o", "m", "p", "o", "n", "e", "n", "t">>
         @@ <<"l", "i", "n", "e">> :> <<"U+1F4CD", " ", "L", "i", "n", "e">>,
     ru |-> <<"r", "e", "p", "o", "r", "t", "_", "t", "i", "t", "l", "e">> :> <<"U+1F4CA", " ", "U+041E", "U+0442", "U+0447", "U+0451", "U+0442", " ", "U+0430", "U+043D", "U+0430", "U+043B", "U+0438", "U+0437", "U+0430", " ", "S", "o", "n", "a", "r", "Q", "u", "b", "e">>
         @@ <<"g", "e", "n", "e", "r", "a", "t", "e", "d">> :> <<"U+1F552", " ", "U+0421", "U+043E", "U+0437", "U+0434", "U+0430", "U+043D", "U+043E">>
         @@ <<"p", "r", "o", "j", "e", "c", "t">> :> <<"U+1F4C1", " ", "U+041F", "U+0440", "U+043E", "U+0435", "U+043A", "U+0442">>
         @@ <<"l", "a", "s", "t", "_", "a", "n", "a", "l", "y", "s", "i", "s">> :> <<"U+1F4C5", " ", "U+041F", "U+043E", "U+0441", "U+043B", "U+0435", "U+0434", "U+043D", "U+0438", "U+0439", " ", "U+0430", "U+043D", "U+0430", "U+043B", "U+0438", "U+0437">>
         @@ <<"l", "a", "t", "e", "s", "t", "_", "i", "s", "s", "u", "e", "s">> :> <<"U+1F6A8", " ", "U+041F", "U+043E", "U+0441", "U+043B", "U+0435", "U+0434", "U+043D", "U+0438", "U+0435", " ", "U+043F", "U+0440", "U+043E", "U+0431", "U+043B", "U+0435", "U+043C", "U+044B">>
         @@ <<"n", "o", "_", "a", "n", "a", "l", "y", "s", "i", "s", "_", "a", "v", "a", "i", "l", "a", "b", "l", "e">> :> <<"U+26A0", "U+FE0F", " ", "U+0410", "U+043D", "U+0430", "U+043B", "U+0438", "U+0437", " ", "U+043D", "U+0435", "U+0434", "U+043E", "U+0441", "U+0442", "U+0443", "U+043F", "U+0435", "U+043D">>
         @@ <<"n", "o", "_", "o", "p", "e", "n", "_", "i", "s", "s", "u", "e", "s">> :> <<"U+2705", " ", "U+041E", "U+0442", "U+043A", "U+0440", "U+044B", "U+0442", "U+044B", "U+0445", " ", "U+043F", "U+0440", "U+043E", "U+0431", "U+043B", "U+0435", "U+043C", " ", "U+043D", "U+0435", " ", "U+043D", "U+0430", "U+0439", "U+0434", "U+0435", "U+043D", "U+043E", ".">>
         @@ <<"s", "e", "v", "e", "r", "i", "t", "y">> :> <<"U+1F525", " ", "U+0412", "U+0430", "U+0436", "U+043D", "U+043E", "U+0441", "U+0442", "U+044C">>
         @@ <<"m", "e", "s", "s", "a", "g", "e">> :> <<"U+1F4AC", " ", "U+0421", "U+043E", "U+043E", "U+0431", "U+0449", "U+0435", "U+043D", "U+0438", "U+0435">>
         @@ <<"c", "o", "m", "p", "o", "n", "e", "n", "t">> :> <<"U+1F9E9", " ", "U+041A", "U+043E", "U+043C", "U+043F", "U+043E", "U+043D", "U+0435", "U+043D", "U+0442">>
         @@ <<"l", "i", "n", "e">> :> <<"U+1F4CD", " ", "U+0421", "U+0442", "U+0440", "U+043E", "U+043A", "U+0430">>]

Datasets == {"bundled", "malformed"}

\* The initialiser of TRANSLATIONS: serde_yaml::from_str(..).unwrap_or_else(..)
LoadTranslations(yaml_content) ==
    IF yaml_content = "malformed" THEN FallbackTranslations ELSE BundledTranslations

ForceReloading(cell, yaml_content) ==
    IF cell = None THEN Some(LoadTranslations(yaml_content))
    ELSE Some(FallbackTranslations)

\* Lazy::force: the cell after a dereference of TRANSLATIONS
Force(cell, yaml_content) ==
    IF cell = None THEN Some(LoadTranslations(yaml_content)) ELSE cell

from_str_case_sensitive(s) == IF s = <<"r", "u">> THEN "Ru" ELSE "En"

\* Language::from_str
from_str(s) == IF to_lowercase(s) = <<"r", "u">> THEN "Ru" ELSE "En"

get_translation_qualified_key(T, key, language) ==
    LET translations == IF language = "En" THEN T.en ELSE T.ru
        qualified == (IF language = "En" THEN <<"e", "n", ".">> ELSE <<"r", "u", ".">>) \o key
        found == Get(translations, qualified)
        or_else == IF found # None THEN found ELSE Get(T.en, qualified)
    IN  IF or_else # None THEN or_else[1] ELSE key

get_translation_no_fallback(T, key, language) ==
    LET translations == IF language = "En" THEN T.en ELSE T.ru
        found == Get(translations, key)
    IN  IF found # None THEN found[1] ELSE key

\* get_translation, reading the forced tables T
get_translation(T, key, language) ==
    LET translations == IF language = "En" THEN T.en ELSE T.ru
        found == Get(translations, key)
        or_else == IF found # None THEN found ELSE Get(T.en, key)
    IN  IF or_else # None THEN or_else[1] ELSE key

-----------------------------------------------------------------------------
(* chrono, as report.rs uses it *)

Digits == <<"0", "1", "2", "3", "4", "5", "6", "7", "8", "9">>

IsDigit(c) == \E i \in DOMAIN Digits : Digits[i] = c
DigitVal(c) == (CHOOSE i \in DOMAIN Digits : Digits[i] = c) - 1

\* The characters of s from position from to position to are all digits
AllDigits(s, from, to) == to <= Len(s) /\ \A i \in from..to : IsDigit(s[i])

\* The value of the two digits at positions i and i + 1
Num2(s, i) == DigitVal(s[i]) * 10 + DigitVal(s[i + 1])

\* The value of the four digits at positions i .. i + 3
Num4(s, i) == Num2(s, i) * 100 + Num2(s, i + 2)

\* n as w decimal digits, zero padded (the %Y, %m, %d, %H, %M and %S items)
RECURSIVE Pad(_, _)
Pad(n, w) == IF w = 0 THEN <<>> ELSE Pad(n \div 10, w - 1) \o <<Digits[(n % 10) + 1]>>

IsLeapYear(y) == (y % 4 = 0 /\ y % 100 # 0) \/ y % 400 = 0

DaysInMonth(y, m) ==
    IF m = 2 THEN (IF IsLeapYear(y) THEN 29 ELSE 28)
    ELSE IF m \in {4, 6, 9, 11} THEN 30 ELSE 31

\* Days from 1970-01-01 to the civil date y-m-d
DaysFromCivil(y, m, d) ==
    LET yy == IF m <= 2 THEN y - 1 ELSE y
        era == yy \div 400
        yoe == yy - era * 400
        mp == IF m > 2 THEN m - 3 ELSE m + 9
        doy == (153 * mp + 2) \div 5 + d - 1
        doe == yoe * 365 + yoe \div 4 - yoe \div 100 + doy
    IN  era * 146097 + doe - 719468

\* The civil date <<y, m, d>> of the day z days after 1970-01-01
CivilFromDays(z) ==
    LET zz == z + 719468
        era == zz \div 146097
        doe == zz - era * 146097
        yoe == (doe - doe \div 1460 + doe \div 36524 - doe \div 146096) \div 365
        doy == doe - (365 * yoe + yoe \div 4 - yoe \div 100)
        mp == (5 * doy + 2) \div 153
        d == doy - (153 * mp + 2) \div 5 + 1
        m == IF mp < 10 THEN mp + 3 ELSE mp - 9
        y == yoe + era * 400
    IN  <<IF m <= 2 THEN y + 1 ELSE y, m, d>>

\* A NaiveDateTime: a day count, a second of the day, and whether the second is
\* a leap second (shown as :60)
Naive(days, secs, leap) == [days |-> days, secs |-> secs, leap |-> leap]

\* NaiveDateTime plus a number of seconds
AddSeconds(ndt, delta) ==
    LET total == ndt.secs + delta
    IN  Naive(ndt.days + total \div 86400, total % 86400, ndt.leap)

\* scan::timezone_offset from position i to the end of s: "Z" or "z", or a sign,
\* two digits of hours, a colon and two digits of minutes.  Some(seconds east).
ParseOffset(s, i) ==
    IF Len(s) = i /\ s[i] \in {"Z", "z"} THEN Some(0)
    ELSE IF /\ Len(s) = i + 5
            /\ s[i] \in {"+", "-"}
            /\ AllDigits(s, i + 1, i + 2)
            /\ s[i + 3] = ":"
            /\ AllDigits(s, i + 4, i + 5)
            /\ Num2(s, i + 1) <= 23
            /\ Num2(s, i + 4) <= 59
         THEN LET east == Num2(s, i + 1) * 3600 + Num2(s, i + 4) * 60
              IN  Some(IF s[i] = "-" THEN 0 - east ELSE east)
         ELSE None

\* The position after an optional fraction of a second starting at i ("." and
\* one or more digits); 0 when a "." is followed by no digit
RECURSIVE SkipDigits(_, _)
SkipDigits(s, i) == IF i <= Len(s) /\ IsDigit(s[i]) THEN SkipDigits(s, i + 1) ELSE i

AfterFraction(s, i) ==
    IF i <= Len(s) /\ s[i] = "."
    THEN (IF i + 1 <= Len(s) /\ IsDigit(s[i + 1]) THEN SkipDigits(s, i + 1) ELSE 0)
    ELSE i

\* DateTime::parse_from_rfc3339: Some DateTime<FixedOffset> (the instant in UTC
\* and the offset of the text), or None for Err
parse_from_rfc3339(s) ==
    IF /\ Len(s) >= 20
       /\ AllDigits(s, 1, 4) /\ s[5] = "-"
       /\ AllDigits(s, 6, 7) /\ s[8] = "-"
       /\ AllDigits(s, 9, 10) /\ s[11] \in {"T", "t"}
       /\ AllDigits(s, 12, 13) /\ s[14] = ":"
       /\ AllDigits(s, 15, 16) /\ s[17] = ":"
       /\ AllDigits(s, 18, 19)
    THEN LET year == Num4(s, 1)
             month == Num2(s, 6)
             day == Num2(s, 9)
             hour == Num2(s, 12)
             minute == Num2(s, 15)
             second == Num2(s, 18)
             rest == AfterFraction(s, 20)
             offset == IF rest = 0 THEN None ELSE ParseOffset(s, rest)
         IN  IF /\ offset # None
                /\ month \in 1..12
                /\ day \in 1..DaysInMonth(year, month)
                /\ hour <= 23 /\ minute <= 59 /\ second <= 60
             THEN LET local == Naive(DaysFromCivil(year, month, day),
                                     hour * 3600 + minute * 60
                                         + (IF second = 60 THEN 59 ELSE second),
                                     second = 60)
                  IN  Some([utc |-> AddSeconds(local, 0 - offset[1]),
                            offset |-> offset[1]])
             ELSE None
    ELSE None

\* NaiveDateTime::format("%Y-%m-%d %H:%M:%S")
FormatNaive(ndt) ==
    LET ymd == CivilFromDays(ndt.days)
        sec == (ndt.secs % 60) + (IF ndt.leap THEN 1 ELSE 0)
    IN  Pad(ymd[1], 4) \o <<"-">> \o Pad(ymd[2], 2) \o <<"-">> \o Pad(ymd[3], 2) \o <<" ">>
        \o Pad(ndt.secs \div 3600, 2) \o <<":">> \o Pad((ndt.secs \div 60) % 60, 2)
        \o <<":">> \o Pad(sec, 2)

\* DateTime<FixedOffset>::naive_local: the date and time that format() shows
naive_local(dt) == AddSeconds(dt.utc, dt.offset)

-----------------------------------------------------------------------------
(* report.rs *)

\* MarkdownReportGenerator::new
new(language) == [language |-> language]

format_analysis_date_label_on_error(T, self, date_str) ==
    IF date_str = None
    THEN get_translation(T, <<"n", "o", "_", "a", "n", "a", "l", "y", "s", "i", "s", "_", "a", "v", "a", "i", "l", "a", "b", "l", "e">>, self.language)
    ELSE LET date == date_str[1]
             parsed == parse_from_rfc3339(date)
         IN  IF parsed # None
             THEN FormatNaive(naive_local(parsed[1])) \o <<" ", "U", "T", "C">>
             ELSE get_translation(T, <<"n", "o", "_", "a", "n", "a", "l", "y", "s", "i", "s", "_", "a", "v", "a", "i", "l", "a", "b", "l", "e">>, self.language)

format_analysis_date_english_only(T, self, date_str) ==
    IF date_str = None
    THEN get_translation(T, <<"n", "o", "_", "a", "n", "a", "l", "y", "s", "i", "s", "_", "a", "v", "a", "i", "l", "a", "b", "l", "e">>, "En")
    ELSE LET date == date_str[1]
             parsed == parse_from_rfc3339(date)
         IN  IF parsed # None
             THEN FormatNaive(naive_local(parsed[1])) \o <<" ", "U", "T", "C">>
             ELSE date

\* MarkdownReportGenerator::format_analysis_date
format_analysis_date(T, self, date_str) ==
    IF date_str = None
    THEN get_translation(T, <<"n", "o", "_", "a", "n", "a", "l", "y", "s", "i", "s", "_", "a", "v", "a", "i", "l", "a", "b", "l", "e">>, self.language)
    ELSE LET date == date_str[1]
             parsed == parse_from_rfc3339(date)
         IN  IF parsed # None
             THEN FormatNaive(naive_local(parsed[1])) \o <<" ", "U", "T", "C">>
             ELSE date

\* IssueData (client.rs)
IssueData(severity, message, component, line) ==
    [severity |-> severity, message |-> message, component |-> component, line |-> line]

\* ProjectData
ProjectData(project_key, last_analysis, issues) ==
    [project_key |-> project_key, last_analysis |-> last_analysis, issues |-> issues]

push_issue_row_all_escaped(table, issue) ==
    table \o <<"|", " ">> \o replace(issue.severity, "|", <<"\\", "|">>)
          \o <<" ", "|", " ">> \o replace(issue.message, "|", <<"\\", "|">>)
          \o <<" ", "|", " ">> \o replace(issue.component, "|", <<"\\", "|">>)
          \o <<" ", "|", " ">> \o replace(issue.line, "|", <<"\\", "|">>) \o <<" ", "|", "\n">>

push_issue_row_unescaped(table, issue) ==
    table \o <<"|", " ">> \o issue.severity \o <<" ", "|", " ">> \o issue.message \o <<" ", "|", " ">>
          \o issue.component \o <<" ", "|", " ">> \o issue.line \o <<" ", "|", "\n">>

push_issue_row_columns_swapped(table, issue) ==
    LET message == replace(issue.message, "|", <<"\\", "|">>)
        component == replace(issue.component, "|", <<"\\", "|">>)
    IN  table \o <<"|", " ">> \o issue.severity \o <<" ", "|", " ">> \o component \o <<" ", "|", " ">> \o message
              \o <<" ", "|", " ">> \o issue.line \o <<" ", "|", "\n">>

\* One pass of the body of the loop over issues: the table with the row pushed
push_issue_row(table, issue) ==
    LET message == replace(issue.message, "|", <<"\\", "|">>)
        component == replace(issue.component, "|", <<"\\", "|">>)
    IN  table \o <<"|", " ">> \o issue.severity \o <<" ", "|", " ">> \o message \o <<" ", "|", " ">> \o component
              \o <<" ", "|", " ">> \o issue.line \o <<" ", "|", "\n">>

\* for issue in issues { .. }, from the i-th issue on
RECURSIVE for_issue_in(_, _, _)
for_issue_in(table, issues, i) ==
    IF i > Len(issues) THEN table
    ELSE for_issue_in(push_issue_row(table, issues[i]), issues, i + 1)

generate_issues_table_header_always(T, self, issues) ==
    LET severity_col == get_translation(T, <<"s", "e", "v", "e", "r", "i", "t", "y">>, self.language)
        message_col == get_translation(T, <<"m", "e", "s", "s", "a", "g", "e">>, self.language)
        component_col == get_translation(T, <<"c", "o", "m", "p", "o", "n", "e", "n", "t">>, self.language)
        line_col == get_translation(T, <<"l", "i", "n", "e">>, self.language)
        header == <<"|", " ">> \o severity_col \o <<" ", "|", " ">> \o message_col \o <<" ", "|", " ">>
                  \o component_col \o <<" ", "|", " ">> \o line_col \o <<" ", "|", "\n">>
        table == header \o <<"|", "-", "-", "-", "-", "-", "-", "-", "-", "-", "-", "|", "-", "-", "-", "-", "-", "-", "-", "-", "-", "|", "-", "-", "-", "-", "-", "-", "-", "-", "-", "-", "-", "|", "-", "-", "-", "-", "-", "-", "|", "\n">>
    IN  for_issue_in(table, issues, 1)

\* MarkdownReportGenerator::generate_issues_table
generate_issues_table(T, self, issues) ==
    IF issues = <<>>
    THEN get_translation(T, <<"n", "o", "_", "o", "p", "e", "n", "_", "i", "s", "s", "u", "e", "s">>, self.language)
    ELSE LET severity_col == get_translation(T, <<"s", "e", "v", "e", "r", "i", "t", "y">>, self.language)
             message_col == get_translation(T, <<"m", "e", "s", "s", "a", "g", "e">>, self.language)
             component_col == get_translation(T, <<"c", "o", "m", "p", "o", "n", "e", "n", "t">>, self.language)
             line_col == get_translation(T, <<"l", "i", "n", "e">>, self.language)
             header == <<"|", " ">> \o severity_col \o <<" ", "|", " ">> \o message_col \o <<" ", "|", " ">>
                       \o component_col \o <<" ", "|", " ">> \o line_col \o <<" ", "|", "\n">>
             table == header \o <<"|", "-", "-", "-", "-", "-", "-", "-", "-", "-", "-", "|", "-", "-", "-", "-", "-", "-", "-", "-", "-", "|", "-", "-", "-", "-", "-", "-", "-", "-", "-", "-", "-", "|", "-", "-", "-", "-", "-", "-", "|", "\n">>
         IN  for_issue_in(table, issues, 1)

\* One pass of the body of the loop over projects: the report with the section pushed
push_project_section(T, self, report, project) ==
    LET project_label == get_translation(T, <<"p", "r", "o", "j", "e", "c", "t">>, self.language)
        last_analysis_label == get_translation(T, <<"l", "a", "s", "t", "_", "a", "n", "a", "l", "y", "s", "i", "s">>, self.language)
        latest_issues_label == get_translation(T, <<"l", "a", "t", "e", "s", "t", "_", "i", "s", "s", "u", "e", "s">>, self.language)
        formatted_date == format_analysis_date(T, self, project.last_analysis)
    IN  report
        \o <<"#", "#", " ">> \o project_label \o <<":", " ">> \o project.project_key \o <<"\n", "\n">>
        \o <<"*", "*">> \o last_analysis_label \o <<":", "*", "*", " ">> \o formatted_date \o <<"\n", "\n">>
        \o <<"*", "*">> \o latest_issues_label \o <<":", "*", "*", "\n", "\n">>
        \o generate_issues_table(T, self, project.issues)
        \o <<"\n", "\n", "-", "-", "-", "\n", "\n">>

RECURSIVE for_project_in_joined(_, _, _, _, _)
for_project_in_joined(T, self, report, projects_data, i) ==
    IF i > Len(projects_data) THEN report
    ELSE LET pushed == push_project_section(T, self, report, projects_data[i])
         IN  IF i = Len(projects_data) THEN SubSeq(pushed, 1, Len(pushed) - 7)
             ELSE for_project_in_joined(T, self, pushed, projects_data, i + 1)

\* for project in projects_data { .. }, from the i-th project on
RECURSIVE for_project_in(_, _, _, _, _)
for_project_in(T, self, report, projects_data, i) ==
    IF i > Len(projects_data) THEN report
    ELSE for_project_in(T, self, push_project_section(T, self, report, projects_data[i]),
                        projects_data, i + 1)

\* MarkdownReportGenerator::generate_report; now is the reading of Utc::now()
generate_report(T, self, projects_data, now) ==
    LET report_title == get_translation(T, <<"r", "e", "p", "o", "r", "t", "_", "t", "i", "t", "l", "e">>, self.language)
        generated_label == get_translation(T, <<"g", "e", "n", "e", "r", "a", "t", "e", "d">>, self.language)
        report == <<"#", " ">> \o report_title \o <<"\n", "\n">>
                  \o generated_label \o <<":", " ">> \o FormatNaive(now) \o <<"\n", "\n">>
                  \o <<"-", "-", "-", "\n", "\n">>
    IN  for_project_in(T, self, report, projects_data, 1)

-----------------------------------------------------------------------------
(* client.rs *)

\* anyhow::Result: Ok(value) or Err(context message)
Ok(value) == <<"Ok", value>>
Err(context) == <<"Err", context>>
IsOk(result) == result[1] = "Ok"
IsErr(result) == result[1] = "Err"

\* str::trim_end_matches(c)
RECURSIVE trim_end_matches(_, _)
trim_end_matches(s, c) ==
    IF s # <<>> /\ s[Len(s)] = c THEN trim_end_matches(SubSeq(s, 1, Len(s) - 1), c) ELSE s

\* The decimal digits of n >= 0, at least one
RECURSIVE DecimalDigits(_)
DecimalDigits(n) ==
    IF n < 10 THEN <<Digits[n + 1]>> ELSE DecimalDigits(n \div 10) \o <<Digits[(n % 10) + 1]>>

\* i32::to_string
to_string(n) == IF n < 0 THEN <<"-">> \o DecimalDigits(0 - n) ELSE DecimalDigits(n)

\* Option::unwrap_or_else(|| "N/A".to_string())
unwrap_or_else_NA(option) == IF option = None THEN <<"N", "/", "A">> ELSE option[1]

\* SonarQubeClient::new: the client, or the error of Client::builder().build()
SonarQubeClient_new(base_url, api_token, build_ok) ==
    IF build_ok
    THEN Ok([base_url |-> trim_end_matches(base_url, "/"),
             authorization |-> <<"B", "a", "s", "i", "c", " ", "b", "a", "s", "e", "6", "4", "(">> \o api_token \o <<":", ")">>])
    ELSE Err(<<"b", "u", "i", "l", "d", "e", "r", " ", "e", "r", "r", "o", "r">>)

\* The request of get_last_analysis_date
analyses_request(self, project_key) ==
    [url |-> self.base_url \o <<"/", "a", "p", "i", "/", "p", "r", "o", "j", "e", "c", "t", "_", "a", "n", "a", "l", "y", "s", "e", "s", "/", "s", "e", "a", "r", "c", "h">>,
     authorization |-> self.authorization,
     query |-> <<<<<<"p", "r", "o", "j", "e", "c", "t">>, project_key>>, <<<<"p", "s">>, <<"1">>>>>>]

\* The request of get_latest_issues
issues_request(self, project_key, max_issues) ==
    [url |-> self.base_url \o <<"/", "a", "p", "i", "/", "i", "s", "s", "u", "e", "s", "/", "s", "e", "a", "r", "c", "h">>,
     authorization |-> self.authorization,
     query |-> <<<<<<"c", "o", "m", "p", "o", "n", "e", "n", "t", "K", "e", "y", "s">>, project_key>>,
                 <<<<"s", "t", "a", "t", "u", "s", "e", "s">>, <<"O", "P", "E", "N", ",", "C", "O", "N", "F", "I", "R", "M", "E", "D">>>>,
                 <<<<"p", "s">>, to_string(max_issues)>>,
                 <<<<"s">>, <<"C", "R", "E", "A", "T", "I", "O", "N", "_", "D", "A", "T", "E">>>>,
                 <<<<"a", "s", "c">>, <<"f", "a", "l", "s", "e">>>>>>]

\* What comes back for a request: whether send() succeeded, the HTTP status, and
\* the body as response.json() decodes it (None: it does not decode)
Response(sent, status, body) == [sent |-> sent, status |-> status, body |-> body]

\* StatusCode::is_success
is_success(status) == status \in 200..299

get_last_analysis_date_strict(response) ==
    IF ~response.sent THEN Err(<<"F", "a", "i", "l", "e", "d", " ", "t", "o", " ", "s", "e", "n", "d", " ", "r", "e", "q", "u", "e", "s", "t">>)
    ELSE IF ~is_success(response.status) THEN Err(<<"F", "a", "i", "l", "e", "d", " ", "t", "o", " ", "s", "e", "n", "d", " ", "r", "e", "q", "u", "e", "s", "t">>)
    ELSE IF response.body = None THEN Err(<<"F", "a", "i", "l", "e", "d", " ", "t", "o", " ", "p", "a", "r", "s", "e", " ", "r", "e", "s", "p", "o", "n", "s", "e">>)
    ELSE Ok(IF response.body[1] = <<>> THEN None ELSE Some(response.body[1][1]))

\* SonarQubeClient::get_last_analysis_date, given the response to its request
get_last_analysis_date(response) ==
    IF ~response.sent THEN Err(<<"F", "a", "i", "l", "e", "d", " ", "t", "o", " ", "s", "e", "n", "d", " ", "r", "e", "q", "u", "e", "s", "t">>)
    ELSE IF ~is_success(response.status) THEN Ok(None)
    ELSE IF response.body = None THEN Err(<<"F", "a", "i", "l", "e", "d", " ", "t", "o", " ", "p", "a", "r", "s", "e", " ", "r", "e", "s", "p", "o", "n", "s", "e">>)
    ELSE Ok(IF response.body[1] = <<>> THEN None ELSE Some(response.body[1][1]))

\* Issue, as deserialised: four optional fields
Issue(severity, message, component, line) ==
    [severity |-> severity, message |-> message, component |-> component, line |-> line]

issue_data_empty_for_missing(issue) ==
    IssueData(IF issue.severity = None THEN <<>> ELSE issue.severity[1],
              IF issue.message = None THEN <<>> ELSE issue.message[1],
              IF issue.component = None THEN <<>> ELSE issue.component[1],
              IF issue.line = None THEN <<>> ELSE to_string(issue.line[1]))

\* The closure of data.issues.into_iter().map(..)
issue_data(issue) ==
    IssueData(unwrap_or_else_NA(issue.severity),
              unwrap_or_else_NA(issue.message),
              unwrap_or_else_NA(issue.component),
              unwrap_or_else_NA(IF issue.line = None THEN None
                                ELSE Some(to_string(issue.line[1]))))

\* SonarQubeClient::get_latest_issues, given the response to its request
get_latest_issues(response) ==
    IF ~response.sent THEN Err(<<"F", "a", "i", "l", "e", "d", " ", "t", "o", " ", "s", "e", "n", "d", " ", "r", "e", "q", "u", "e", "s", "t">>)
    ELSE IF ~is_success(response.status) THEN Ok(<<>>)
    ELSE IF response.body = None THEN Err(<<"F", "a", "i", "l", "e", "d", " ", "t", "o", " ", "p", "a", "r", "s", "e", " ", "r", "e", "s", "p", "o", "n", "s", "e">>)
    ELSE Ok([k \in DOMAIN response.body[1] |-> issue_data(response.body[1][k])])

-----------------------------------------------------------------------------
(* main.rs *)

\* The options of Args that take a text
ArgNames == {"url", "token", "projects", "max_issues", "output", "language"}
\* The options of Args with an env attribute
EnvNames == {"url", "token", "projects", "max_issues", "language"}

\* clap: the command line first, then the environment variable of the option
arg_source(argv, environ, name) ==
    IF argv[name] # None THEN argv[name]
    ELSE IF name \in EnvNames THEN environ[name]
    ELSE None

\* The value parser clap derives from ValueEnum for Language: the variant names
\* in kebab case, matched exactly
value_enum(s) ==
    IF s = <<"e", "n">> THEN Some("En")
    ELSE IF s = <<"r", "u">> THEN Some("Ru")
    ELSE None

I32Max == 2147483647

\* The value of a digit string, None past i32::MAX
RECURSIVE parse_digits(_, _)
parse_digits(s, acc) ==
    IF s = <<>> THEN Some(acc)
    ELSE IF ~IsDigit(s[1]) THEN None
    ELSE IF acc > (I32Max - DigitVal(s[1])) \div 10 THEN None
    ELSE parse_digits(Tail(s), acc * 10 + DigitVal(s[1]))

\* The value parser of an i32 option: str::parse::<i32>
parse_i32(s) ==
    IF s = <<>> THEN None
    ELSE IF s[1] = "-" THEN
        IF Len(s) = 1 \/ parse_digits(Tail(s), 0) = None THEN None
        ELSE Some(0 - parse_digits(Tail(s), 0)[1])
    ELSE IF s[1] = "+" THEN
        IF Len(s) = 1 THEN None ELSE parse_digits(Tail(s), 0)
    ELSE parse_digits(s, 0)

Args_parse_token_optional(argv, environ) ==
    LET max_issues == IF arg_source(argv, environ, "max_issues") = None THEN <<"1", "0">>
                      ELSE arg_source(argv, environ, "max_issues")[1]
        language == IF arg_source(argv, environ, "language") = None THEN <<"e", "n">>
                    ELSE arg_source(argv, environ, "language")[1]
        token == arg_source(argv, environ, "token")
    IN  IF parse_i32(max_issues) = None THEN Err(<<"i", "n", "v", "a", "l", "i", "d", " ", "v", "a", "l", "u", "e", " ", "f", "o", "r", " ", "-", "-", "m", "a", "x", "-", "i", "s", "s", "u", "e", "s">>)
        ELSE IF value_enum(language) = None THEN Err(<<"i", "n", "v", "a", "l", "i", "d", " ", "v", "a", "l", "u", "e", " ", "f", "o", "r", " ", "-", "-", "l", "a", "n", "g", "u", "a", "g", "e">>)
        ELSE Ok([url |-> arg_source(argv, environ, "url"),
                 token |-> IF token = None THEN Some(<<>>) ELSE token,
                 projects |-> arg_source(argv, environ, "projects"),
                 max_issues |-> parse_i32(max_issues)[1],
                 output |-> arg_source(argv, environ, "output"),
                 language |-> value_enum(language)[1]])

\* Args::parse(): the Args, or the usage error clap exits on
Args_parse(argv, environ) ==
    LET max_issues == IF arg_source(argv, environ, "max_issues") = None THEN <<"1", "0">>
                      ELSE arg_source(argv, environ, "max_issues")[1]
        language == IF arg_source(argv, environ, "language") = None THEN <<"e", "n">>
                    ELSE arg_source(argv, environ, "language")[1]
    IN  IF parse_i32(max_issues) = None THEN Err(<<"i", "n", "v", "a", "l", "i", "d", " ", "v", "a", "l", "u", "e", " ", "f", "o", "r", " ", "-", "-", "m", "a", "x", "-", "i", "s", "s", "u", "e", "s">>)
        ELSE IF value_enum(language) = None THEN Err(<<"i", "n", "v", "a", "l", "i", "d", " ", "v", "a", "l", "u", "e", " ", "f", "o", "r", " ", "-", "-", "l", "a", "n", "g", "u", "a", "g", "e">>)
        ELSE Ok([url |-> arg_source(argv, environ, "url"),
                 token |-> arg_source(argv, environ, "token"),
                 projects |-> arg_source(argv, environ, "projects"),
                 max_issues |-> parse_i32(max_issues)[1],
                 output |-> arg_source(argv, environ, "output"),
                 language |-> value_enum(language)[1]])

\* The exit status of a usage error of clap, and of main returning Err or Ok
ExitUsage == 2
ExitFailure == 1
ExitSuccess == 0

\* str::split(c): the pieces between the occurrences of c, empty ones included
RECURSIVE split(_, _)
split(s, c) ==
    IF \A i \in DOMAIN s : s[i] # c THEN <<s>>
    ELSE LET i == CHOOSE i \in DOMAIN s : s[i] = c /\ \A j \in 1..(i - 1) : s[j] # c
         IN  <<SubSeq(s, 1, i - 1)>> \o split(SubSeq(s, i + 1, Len(s)), c)

WhiteSpace == {" ", "\t", "\n", "\r"}

\* str::trim
RECURSIVE trim(_)
trim(s) ==
    IF s # <<>> /\ s[1] \in WhiteSpace THEN trim(Tail(s))
    ELSE IF s # <<>> /\ s[Len(s)] \in WhiteSpace THEN trim(SubSeq(s, 1, Len(s) - 1))
    ELSE s

split_project_keys_reversed(projects) ==
    LET keys == split(projects, ",")
    IN  [k \in DOMAIN keys |-> trim(keys[Len(keys) + 1 - k])]

\* projects.split(',').map(|s| s.trim()).collect()
split_project_keys(projects) ==
    LET keys == split(projects, ",")
    IN  [k \in DOMAIN keys |-> trim(keys[k])]

\* What fs::write(path, text) can leave behind: the whole text, or on an error
\* the file as it was, or a file cut short
WriteOutcomes == {"written", "not_created", "cut_short"}

\* What print!("{}", report) can do: print the whole text, or panic on a failed
\* write to standard output with part of the text out
PrintOutcomes == {"printed", "broken_pipe"}

\* The exit status of a panic
ExitPanic == 101

-----------------------------------------------------------------------------
(* The runs: one public function per run, its arguments drawn at the start *)

LangChars == {"r", "u", "R", "U", "e", "n", "E", "N", "f", " "}
LangInputs == SeqsUpTo(LangChars, MaxLangLen)
KeyInputs == LabelKeys \cup {<<"n", "o", "n", "_", "e", "x", "i", "s", "t", "e", "n", "t", "_", "k", "e", "y">>, <<>>}

\* The text of a timestamp: date, "T", time and an offset text
Rfc3339Text(ymd, hms, offset) ==
    Pad(ymd[1], 4) \o <<"-">> \o Pad(ymd[2], 2) \o <<"-">> \o Pad(ymd[3], 2) \o <<"T">>
    \o Pad(hms[1], 2) \o <<":">> \o Pad(hms[2], 2) \o <<":">> \o Pad(hms[3], 2) \o offset

OffsetTexts == {<<"Z">>, <<"+", "0", "0", ":", "0", "0">>, <<"-", "0", "0", ":", "0", "0">>, <<"+", "0", "3", ":", "0", "0">>, <<"-", "0", "5", ":", "0", "0">>, <<"+", "0", "5", ":", "3", "0">>, <<".", "1", "2", "3", "+", "0", "1", ":", "0", "0">>}
DateTexts == {<<2024, 1, 15>>, <<2024, 1, 1>>, <<2024, 2, 29>>, <<2023, 12, 31>>}
TimeTexts == {<<10, 30, 0>>, <<0, 0, 0>>, <<23, 59, 59>>}

WellFormedDates ==
    {Rfc3339Text(ymd, hms, off) : ymd \in DateTexts, hms \in TimeTexts, off \in OffsetTexts}

MalformedDates ==
    {<<"i", "n", "v", "a", "l", "i", "d", "-", "d", "a", "t", "e">>, <<>>, <<"2", "0", "2", "4", "-", "0", "1", "-", "1", "5">>, <<"2", "0", "2", "4", "-", "0", "1", "-", "1", "5", "T", "1", "0", ":", "3", "0", ":", "0", "0">>, <<"2", "0", "2", "4", "-", "0", "1", "-", "1", "5", "T", "1", "0", ":", "3", "0", ":", "0", "0", "+", "0", "0", "0", "0">>,
     <<"2", "0", "2", "4", "-", "1", "3", "-", "1", "5", "T", "1", "0", ":", "3", "0", ":", "0", "0", "Z">>, <<"2", "0", "2", "3", "-", "0", "2", "-", "2", "9", "T", "1", "0", ":", "3", "0", ":", "0", "0", "Z">>, <<"2", "0", "2", "4", "-", "0", "1", "-", "1", "5", "T", "2", "4", ":", "0", "0", ":", "0", "0", "Z">>,
     <<"2", "0", "2", "4", "-", "0", "1", "-", "1", "5", "T", "1", "0", ":", "3", "0", ":", "0", "0", "+", "2", "4", ":", "0", "0">>, <<"2", "0", "2", "4", "-", "0", "1", "-", "1", "5", "T", "1", "0", ":", "3", "0", ":", "0", "0", ".", "Z">>, <<"2", "0", "2", "4", "-", "0", "1", "-", "1", "5", "T", "1", "0", ":", "3", "0", ":", "0", "0", "Z", "|">>,
     <<"2", "0", "2", "4", "-", "0", "1", "-", "1", "5", " ", "1", "0", ":", "3", "0", ":", "0", "0", " ", "U", "T", "C">>}

DateInputs == {None} \cup {Some(d) : d \in WellFormedDates \cup MalformedDates}

FieldChars == {"a", "|", "\\", "\n"}
FieldTexts == SeqsUpTo(FieldChars, MaxFieldLen)
SeverityTexts == {<<"M", "A", "J", "O", "R">>, <<>>, <<"a", "|", "b">>, <<"\\", "|">>}
ComponentTexts == {<<"M", "a", "i", "n", ".", "j", "a", "v", "a">>, <<"a", "|", "b">>, <<"|">>, <<"\\", "|">>, <<"c", "\\">>}
LineTexts == {<<"4", "2">>, <<"N", "/", "A">>, <<"|">>}

SingleIssues ==
    {IssueData(severity, message, component, line) :
        severity \in SeverityTexts, message \in FieldTexts,
        component \in ComponentTexts, line \in LineTexts}

Issue1 == IssueData(<<"C", "R", "I", "T", "I", "C", "A", "L">>, <<"N", "u", "l", "l", "P", "o", "i", "n", "t", "e", "r">>, <<"M", "a", "i", "n", ".", "j", "a", "v", "a">>, <<"4", "2">>)
Issue2 == IssueData(<<"M", "A", "J", "O", "R">>, <<"U", "s", "e", " ", "|", "|", " ", "i", "n", "s", "t", "e", "a", "d", " ", "o", "f", " ", "|">>, <<"L", "o", "g", "i", "c", ".", "j", "a", "v", "a">>, <<"1", "0">>)
Issue3 == IssueData(<<"N", "/", "A">>, <<"N", "/", "A">>, <<"a", "|", "b">>, <<"N", "/", "A">>)
IssuePool == {Issue1, Issue2, Issue3}

IssuesInputs == SeqsUpTo(IssuePool, MaxIssues) \cup {<<issue>> : issue \in SingleIssues}

Project1 == ProjectData(<<"p", "r", "o", "j", "e", "c", "t", "1">>, Some(<<"2", "0", "2", "4", "-", "0", "1", "-", "1", "5", "T", "1", "0", ":", "3", "0", ":", "0", "0", "+", "0", "0", ":", "0", "0">>), <<Issue1>>)
Project2 == ProjectData(<<"p", "r", "o", "j", "e", "c", "t", "2">>, None, <<>>)
Project3 == ProjectData(<<"p", "3">>, Some(<<"i", "n", "v", "a", "l", "i", "d", "-", "d", "a", "t", "e">>), <<Issue2, Issue3>>)
Project4 == ProjectData(<<"U+0442", "U+0435", "U+0441", "U+0442">>, Some(<<"2", "0", "2", "4", "-", "0", "1", "-", "1", "5", "T", "0", "1", ":", "3", "0", ":", "0", "0", "+", "0", "3", ":", "0", "0">>), <<>>)
ProjectPool == {Project1, Project2, Project3, Project4}

ProjectsInputs == SeqsUpTo(ProjectPool, MaxProjects)

\* 2024-01-15 10:30:00 and 2023-12-31 23:59:59
FixedClock == Naive(DaysFromCivil(2024, 1, 15), 37800, FALSE)
ClockInputs == {FixedClock, Naive(DaysFromCivil(2023, 12, 31), 86399, FALSE)}

InitFromStr ==
    /\ entry = "from_str"
    /\ arg_s \in LangInputs
    /\ arg_language = "En"
    /\ arg_date = None
    /\ arg_issues = <<>>
    /\ arg_projects = <<>>
    /\ clock = FixedClock

InitGetTranslation ==
    /\ entry = "get_translation"
    /\ arg_s \in KeyInputs
    /\ arg_language \in Languages
    /\ arg_date = None
    /\ arg_issues = <<>>
    /\ arg_projects = <<>>
    /\ clock = FixedClock

InitFormatAnalysisDate ==
    /\ entry = "format_analysis_date"
    /\ arg_s = <<>>
    /\ arg_language \in Languages
    /\ arg_date \in DateInputs
    /\ arg_issues = <<>>
    /\ arg_projects = <<>>
    /\ clock = FixedClock

InitGenerateIssuesTable ==
    /\ entry = "generate_issues_table"
    /\ arg_s = <<>>
    /\ arg_language \in Languages
    /\ arg_date = None
    /\ arg_issues \in IssuesInputs
    /\ arg_projects = <<>>
    /\ clock = FixedClock

InitGenerateReport ==
    /\ entry = "generate_report"
    /\ arg_s = <<>>
    /\ arg_language \in Languages
    /\ arg_date = None
    /\ arg_issues = <<>>
    /\ arg_projects \in ProjectsInputs
    /\ clock \in ClockInputs

\* No option given, no variable set
NoArgs == [name \in ArgNames |-> None]

\* The processes' state before main has run a line
MainNotStarted ==
    /\ main_args = None
    /\ client = None
    /\ project_keys = <<>>
    /\ key_index = 1
    /\ main_last_analysis = None
    /\ main_projects_data = <<>>
    /\ requests = <<>>
    /\ http_response = None
    /\ fetch_result = None
    /\ stdout = <<>>
    /\ output_file = None
    /\ exit_code = None

Init ==
    /\ pc = "idle"
    /\ cli = NoArgs
    /\ env = NoArgs
    /\ MainNotStarted
    /\ dataset \in Datasets
    /\ TRANSLATIONS = None
    /\ generator = None
    /\ ticks = 0
    /\ ret_language = None
    /\ ret_string = None
    /\ reports = <<>>
    /\ \/ InitFromStr
       \/ InitGetTranslation
       \/ InitFormatAnalysisDate
       \/ InitGenerateIssuesTable
       \/ InitGenerateReport

args == <<entry, arg_s, arg_language, arg_date, arg_issues, arg_projects>>

\* A call of Language::from_str(arg_s)
FromStr ==
    /\ UNCHANGED main_vars
    /\ entry = "from_str"
    /\ ret_language' = Some(from_str(arg_s))
    /\ UNCHANGED <<dataset, TRANSLATIONS, generator, clock, ticks, args,
                   ret_string, reports>>

\* A call of get_translation(arg_s, &arg_language)
GetTranslation ==
    /\ UNCHANGED main_vars
    /\ entry = "get_translation"
    /\ TRANSLATIONS' = Force(TRANSLATIONS, dataset)
    /\ ret_string' = Some(get_translation(TRANSLATIONS'[1], arg_s, arg_language))
    /\ UNCHANGED <<dataset, generator, clock, ticks, args, ret_language, reports>>

\* MarkdownReportGenerator::new(arg_language)
New ==
    /\ UNCHANGED main_vars
    /\ entry \in {"format_analysis_date", "generate_issues_table", "generate_report"}
    /\ generator = None
    /\ generator' = Some(new(arg_language))
    /\ UNCHANGED <<dataset, TRANSLATIONS, clock, ticks, args, ret_language,
                   ret_string, reports>>

\* generator.format_analysis_date(arg_date): the None arm alone reads TRANSLATIONS
FormatAnalysisDate ==
    /\ UNCHANGED main_vars
    /\ entry = "format_analysis_date"
    /\ generator # None
    /\ TRANSLATIONS' = IF arg_date = None THEN Force(TRANSLATIONS, dataset)
                       ELSE TRANSLATIONS
    /\ ret_string' = Some(format_analysis_date(Force(TRANSLATIONS, dataset)[1],
                                               generator[1], arg_date))
    /\ UNCHANGED <<dataset, generator, clock, ticks, args, ret_language, reports>>

\* generator.generate_issues_table(&arg_issues)
GenerateIssuesTable ==
    /\ UNCHANGED main_vars
    /\ entry = "generate_issues_table"
    /\ generator # None
    /\ TRANSLATIONS' = Force(TRANSLATIONS, dataset)
    /\ ret_string' = Some(generate_issues_table(TRANSLATIONS'[1], generator[1],
                                                arg_issues))
    /\ UNCHANGED <<dataset, generator, clock, ticks, args, ret_language, reports>>

\* generator.generate_report(&arg_projects), reading the clock once
GenerateReport ==
    /\ UNCHANGED main_vars
    /\ entry = "generate_report"
    /\ generator # None
    /\ Len(reports) < MaxReports
    /\ TRANSLATIONS' = Force(TRANSLATIONS, dataset)
    /\ ret_string' = Some(generate_report(TRANSLATIONS'[1], generator[1],
                                          arg_projects, clock))
    /\ reports' = Append(reports, [now |-> clock, text |-> ret_string'[1]])
    /\ UNCHANGED <<dataset, generator, clock, ticks, args, ret_language>>

\* A second of wall-clock time passes
Tick ==
    /\ UNCHANGED main_vars
    /\ entry = "generate_report"
    /\ ticks < MaxTicks
    /\ clock' = AddSeconds(clock, 1)
    /\ ticks' = ticks + 1
    /\ UNCHANGED <<dataset, TRANSLATIONS, generator, args, ret_language,
                   ret_string, reports>>

Next ==
    \/ FromStr
    \/ GetTranslation
    \/ New
    \/ FormatAnalysisDate
    \/ GenerateIssuesTable
    \/ GenerateReport
    \/ Tick

Spec == Init /\ [][Next]_vars

-----------------------------------------------------------------------------
(* The runs of the client's functions and of main *)

MaxResponseIssues == 2

UrlTexts == {<<"h", "t", "t", "p", ":", "/", "/", "s", "q">>, <<"h", "t", "t", "p", ":", "/", "/", "s", "q", "/", "/">>, <<"h", "t", "t", "p", ":", "/", "/", "b", "/">>}
EnvUrlText == <<"h", "t", "t", "p", ":", "/", "/", "e", "n", "v">>
TokenText == <<"t">>
EnvTokenText == <<"e">>
ProjectKeyTexts == {<<"p", "1">>, <<>>}

StatusCodes == {200, 204, 301, 401, 404, 500}

\* The dates of a project_analyses response
Date1 == <<"2", "0", "2", "4", "-", "0", "1", "-", "1", "5", "T", "1", "0", ":", "3", "0", ":", "0", "0", "+", "0", "0", "0", "0">>
Date2 == <<"2", "0", "2", "4", "-", "0", "2", "-", "2", "9", "T", "2", "3", ":", "5", "9", ":", "5", "9", "-", "0", "5", ":", "0", "0">>
AnalysesBodies == {None, Some(<<>>), Some(<<Date1>>), Some(<<Date2, Date1>>)}

\* The issues of an issues response
Json1 == Issue(Some(<<"M", "A", "J", "O", "R">>), Some(<<"m", "|", "x">>), Some(<<"c">>), Some(42))
Json2 == Issue(Some(<<"M", "A", "J", "O", "R">>), None, None, None)
Json3 == Issue(None, Some(<<>>), Some(<<"N", "/", "A">>), Some(0 - 7))
Json4 == Issue(Some(<<"a", "|", "b">>), None, Some(<<"c">>), Some(I32Max))
JsonPool == {Json1, Json2, Json3, Json4}
IssuesBodies == {None} \cup {Some(body) : body \in SeqsUpTo(JsonPool, MaxResponseIssues)}

NetworkError == Response(FALSE, 0, None)
DateResponses ==
    {NetworkError} \cup {Response(TRUE, status, body) : status \in StatusCodes,
                                                        body \in AnalysesBodies}
IssuesResponses ==
    {NetworkError} \cup {Response(TRUE, status, body) : status \in StatusCodes,
                                                        body \in IssuesBodies}
MaxIssuesInputs == {10, 0, 0 - 1}

\* What the service answers in a run of main
MainDateResponses ==
    {NetworkError, Response(TRUE, 404, None), Response(TRUE, 200, None),
     Response(TRUE, 200, Some(<<>>)), Response(TRUE, 200, Some(<<Date2, Date1>>))}
MainIssuesResponses ==
    {NetworkError, Response(TRUE, 500, None), Response(TRUE, 200, None),
     Response(TRUE, 200, Some(<<>>)), Response(TRUE, 200, Some(<<Json1, Json2>>))}

\* The values of an option in the two places it can come from
Given(name, text) == [NoArgs EXCEPT ![name] = Some(text)]
Sources(name, cli_text, env_text) ==
    {<<NoArgs, NoArgs>>, <<Given(name, cli_text), NoArgs>>,
     <<NoArgs, Given(name, env_text)>>, <<Given(name, cli_text), Given(name, env_text)>>}

\* Two records of options put together: the options of a, then those of b
Merge(a, b) == [name \in ArgNames |-> IF a[name] # None THEN a[name] ELSE b[name]]

ProjectListTexts ==
    {<<"p", "1">>, <<"p", "1", ",", "p", "2">>, <<" ", "p", "1", " ", ",", "\t", "p", "2", "\n">>, <<"p", "2", ",", "p", "1">>, <<"p", "1", ",", "p", "1">>, <<"p", "1", ",">>, <<",">>, <<" ">>, <<>>}
LanguageTexts == {<<"e", "n">>, <<"r", "u">>, <<"f", "r">>, <<"R", "U">>, <<"E", "n">>, <<>>}
MaxIssuesTexts == {<<"5">>, <<"-", "1">>, <<"x">>, <<"2", "1", "4", "7", "4", "8", "3", "6", "4", "8">>, <<>>}
OutputPath == <<"r", "e", "p", "o", "r", "t", ".", "m", "d">>

\* All three required options given on the command line
Required == Merge(Given("url", <<"h", "t", "t", "p", ":", "/", "/", "s", "q", "/">>),
                  Merge(Given("token", TokenText), Given("projects", <<"p", "1", ",", "p", "2">>)))

\* The command lines and environments of the runs of main:
\* each required option in any of its places or in none;
\* the language, in either place, with two projects;
\* the project list and the output path;
\* the number of issues
Invocations ==
    {<<Merge(u[1], Merge(k[1], l[1])), Merge(u[2], Merge(k[2], l[2]))>> :
        u \in Sources("url", <<"h", "t", "t", "p", ":", "/", "/", "s", "q", "/">>, EnvUrlText),
        k \in Sources("token", TokenText, EnvTokenText),
        l \in Sources("projects", <<"p", "1">>, <<"p", "2">>)}
    \cup {<<Merge(Required, c), e>> :
            c \in {NoArgs} \cup {Given("language", text) : text \in LanguageTexts},
            e \in {NoArgs, Given("language", <<"r", "u">>), Given("language", <<"f", "r">>)}}
    \cup {<<Merge([Required EXCEPT !["projects"] = Some(list)], o), NoArgs>> :
            list \in ProjectListTexts,
            o \in {NoArgs, Given("output", OutputPath)}}
    \cup {<<Merge([Required EXCEPT !["projects"] = Some(<<"p", "1">>)], c), e>> :
            c \in {NoArgs} \cup {Given("max_issues", text) : text \in MaxIssuesTexts},
            e \in {NoArgs, Given("max_issues", <<"7">>)}}

\* The arguments of the six calls of Spec, unused by these runs
NoCoreArgs ==
    /\ arg_language = "En"
    /\ arg_date = None
    /\ arg_issues = <<>>
    /\ arg_projects = <<>>
    /\ clock = FixedClock
    /\ TRANSLATIONS = None
    /\ generator = None
    /\ ticks = 0
    /\ ret_language = None
    /\ ret_string = None
    /\ reports = <<>>

\* A call of a function of a client made by SonarQubeClient::new
InitClientCall ==
    /\ entry \in {"get_last_analysis_date", "get_latest_issues"}
    /\ arg_s \in ProjectKeyTexts
    /\ dataset = "bundled"
    /\ pc = "idle"
    /\ cli = NoArgs
    /\ env = NoArgs
    /\ main_args = None
    /\ \E base_url \in UrlTexts :
          client = Some(SonarQubeClient_new(base_url, TokenText, TRUE)[2])
    /\ project_keys = <<>>
    /\ key_index = 1
    /\ main_last_analysis = None
    /\ main_projects_data = <<>>
    /\ requests = <<>>
    /\ http_response = None
    /\ fetch_result = None
    /\ stdout = <<>>
    /\ output_file = None
    /\ exit_code = None

\* The process at the first line of main
InitMain ==
    /\ entry = "main"
    /\ arg_s = <<>>
    /\ dataset \in Datasets
    /\ pc = "start"
    /\ \E invocation \in Invocations :
          /\ cli = invocation[1]
          /\ env = invocation[2]
    /\ MainNotStarted

InitMainSpec ==
    /\ NoCoreArgs
    /\ \/ InitClientCall
       \/ InitMain

core_vars == <<dataset, TRANSLATIONS, generator, clock, ticks, args, ret_language,
               ret_string, reports>>

\* client.get_last_analysis_date(arg_s)
GetLastAnalysisDate ==
    /\ entry = "get_last_analysis_date"
    /\ fetch_result = None
    /\ \E resp \in DateResponses :
          /\ requests' = Append(requests, analyses_request(client[1], arg_s))
          /\ http_response' = Some(resp)
          /\ fetch_result' = Some(get_last_analysis_date(resp))
    /\ UNCHANGED <<core_vars, pc, cli, env, main_args, client, project_keys,
                   key_index, main_last_analysis, main_projects_data, stdout,
                   output_file, exit_code>>

\* client.get_latest_issues(arg_s, n)
GetLatestIssues ==
    /\ entry = "get_latest_issues"
    /\ fetch_result = None
    /\ \E resp \in IssuesResponses, n \in MaxIssuesInputs :
          /\ requests' = Append(requests, issues_request(client[1], arg_s, n))
          /\ http_response' = Some(resp)
          /\ fetch_result' = Some(get_latest_issues(resp))
    /\ UNCHANGED <<core_vars, pc, cli, env, main_args, client, project_keys,
                   key_index, main_last_analysis, main_projects_data, stdout,
                   output_file, exit_code>>

\* main, lines 66-84: the arguments, the three required options, the project
\* keys and the client
MainStart ==
    /\ entry = "main"
    /\ pc = "start"
    /\ \E build_ok \in BOOLEAN :
          LET parsed == Args_parse(cli, env)
              parsed_ok == IsOk(parsed)
              required == parsed_ok /\ parsed[2].url # None /\ parsed[2].token # None
                          /\ parsed[2].projects # None
              made == IF required
                      THEN SonarQubeClient_new(parsed[2].url[1], parsed[2].token[1],
                                               build_ok)
                      ELSE Err(<<>>)
          IN  /\ main_args' = IF parsed_ok THEN Some(parsed[2]) ELSE None
              /\ project_keys' = IF required THEN split_project_keys(parsed[2].projects[1])
                                 ELSE <<>>
              /\ client' = IF IsOk(made) THEN Some(made[2]) ELSE None
              /\ pc' = IF ~IsOk(made) THEN "exit"
                       ELSE IF project_keys' = <<>> THEN "report"
                       ELSE "fetch_date"
              /\ exit_code' = IF ~parsed_ok THEN Some(ExitUsage)
                              ELSE IF ~IsOk(made) THEN Some(ExitFailure)
                              ELSE None
    /\ UNCHANGED <<core_vars, cli, env, key_index, main_last_analysis,
                   main_projects_data, requests, http_response, fetch_result, stdout,
                   output_file>>

\* main, line 89: client.get_last_analysis_date(project_key)?
MainFetchAnalysisDate ==
    /\ entry = "main"
    /\ pc = "fetch_date"
    /\ \E resp \in MainDateResponses :
          LET result == get_last_analysis_date(resp)
          IN  /\ requests' = Append(requests,
                                    analyses_request(client[1], project_keys[key_index]))
              /\ http_response' = Some(resp)
              /\ fetch_result' = Some(result)
              /\ main_last_analysis' = IF IsOk(result) THEN result[2] ELSE None
              /\ pc' = IF IsOk(result) THEN "fetch_issues" ELSE "exit"
              /\ exit_code' = IF IsOk(result) THEN None ELSE Some(ExitFailure)
    /\ UNCHANGED <<core_vars, cli, env, main_args, client, project_keys, key_index,
                   main_projects_data, stdout, output_file>>

\* main, lines 90-96: client.get_latest_issues(project_key, args.max_issues)? and
\* the push of the project's data
MainFetchIssues ==
    /\ entry = "main"
    /\ pc = "fetch_issues"
    /\ \E resp \in MainIssuesResponses :
          LET result == get_latest_issues(resp)
          IN  /\ requests' = Append(requests,
                                    issues_request(client[1], project_keys[key_index],
                                                   main_args[1].max_issues))
              /\ http_response' = Some(resp)
              /\ fetch_result' = Some(result)
              /\ main_projects_data' =
                    IF IsOk(result)
                    THEN Append(main_projects_data,
                                ProjectData(project_keys[key_index], main_last_analysis,
                                            result[2]))
                    ELSE main_projects_data
              /\ key_index' = IF IsOk(result) THEN key_index + 1 ELSE key_index
              /\ pc' = IF ~IsOk(result) THEN "exit"
                       ELSE IF key_index = Len(project_keys) THEN "report"
                       ELSE "fetch_date"
              /\ exit_code' = IF IsOk(result) THEN None ELSE Some(ExitFailure)
    /\ UNCHANGED <<core_vars, cli, env, main_args, client, project_keys,
                   main_last_analysis, stdout, output_file>>

MainReportPrintedToo ==
    /\ entry = "main"
    /\ pc = "report"
    /\ generator' = Some(new(main_args[1].language))
    /\ TRANSLATIONS' = Force(TRANSLATIONS, dataset)
    /\ ret_string' = Some(generate_report(TRANSLATIONS'[1], generator'[1],
                                          main_projects_data, clock))
    /\ pc' = "exit"
    /\ stdout' = stdout \o ret_string'[1]
    /\ output_file' = IF main_args[1].output = None THEN output_file
                      ELSE Some([path |-> main_args[1].output[1],
                                 content |-> ret_string'[1]])
    /\ exit_code' = Some(ExitSuccess)
    /\ UNCHANGED <<dataset, clock, ticks, args, ret_language, reports, cli, env,
                   main_args, client, project_keys, key_index, main_last_analysis,
                   main_projects_data, requests, http_response, fetch_result>>

\* main, lines 99-110: the report, written to the output path or printed
MainReport ==
    /\ entry = "main"
    /\ pc = "report"
    /\ generator' = Some(new(main_args[1].language))
    /\ TRANSLATIONS' = Force(TRANSLATIONS, dataset)
    /\ ret_string' = Some(generate_report(TRANSLATIONS'[1], generator'[1],
                                          main_projects_data, clock))
    /\ pc' = "exit"
    /\ IF main_args[1].output = None
       THEN \E outcome \in PrintOutcomes :
               /\ stdout' = IF outcome = "printed" THEN stdout \o ret_string'[1]
                             ELSE stdout \o SubSeq(ret_string'[1], 1,
                                                   Len(ret_string'[1]) \div 2)
               /\ output_file' = output_file
               /\ exit_code' = IF outcome = "printed" THEN Some(ExitSuccess)
                               ELSE Some(ExitPanic)
       ELSE \E outcome \in WriteOutcomes :
               /\ stdout' = stdout
               /\ output_file' =
                     IF outcome = "written"
                     THEN Some([path |-> main_args[1].output[1],
                                content |-> ret_string'[1]])
                     ELSE IF outcome = "cut_short"
                     THEN Some([path |-> main_args[1].output[1],
                                content |-> SubSeq(ret_string'[1], 1,
                                                   Len(ret_string'[1]) \div 2)])
                     ELSE output_file
               /\ exit_code' = IF outcome = "written" THEN Some(ExitSuccess)
                               ELSE Some(ExitFailure)
    /\ UNCHANGED <<dataset, clock, ticks, args, ret_language, reports, cli, env,
                   main_args, client, project_keys, key_index, main_last_analysis,
                   main_projects_data, requests, http_response, fetch_result>>

NextMain ==
    \/ GetLastAnalysisDate
    \/ GetLatestIssues
    \/ MainStart
    \/ MainFetchAnalysisDate
    \/ MainFetchIssues
    \/ MainReport

SpecMain == InitMainSpec /\ [][NextMain]_vars

-----------------------------------------------------------------------------
(* Reading a rendered text back *)

Count(s, c) == Cardinality({i \in DOMAIN s : s[i] = c})

IsPrefix(p, s) == Len(p) <= Len(s) /\ SubSeq(s, 1, Len(p)) = p
IsSuffix(p, s) == Len(p) <= Len(s) /\ SubSeq(s, Len(s) - Len(p) + 1, Len(s)) = p

\* The number of places of s where p occurs
Occurrences(p, s) ==
    Cardinality({i \in 1..(Len(s) - Len(p) + 1) : SubSeq(s, i, i + Len(p) - 1) = p})

\* The positions of the delimiters of s that no backslash precedes
UnescapedPipes(s) == {i \in DOMAIN s : s[i] = "|" /\ (i = 1 \/ s[i - 1] # "\\")}

\* The cells of a row "| a | b |\n" split on its unescaped delimiters
CellCount(row) == Cardinality(UnescapedPipes(row)) - 1

\* s without the backslash in front of each delimiter
RECURSIVE UnescapeFrom(_, _)
UnescapeFrom(s, i) ==
    IF i > Len(s) THEN <<>>
    ELSE IF s[i] = "\\" /\ i < Len(s) /\ s[i + 1] = "|" THEN UnescapeFrom(s, i + 1)
    ELSE <<s[i]>> \o UnescapeFrom(s, i + 1)

Unescape(s) == UnescapeFrom(s, 1)

\* The label a key resolves to in the run's dataset and language
ResolvedLabel(key) ==
    LET T == LoadTranslations(dataset)
    IN  IF arg_language = "Ru" /\ key \in DOMAIN T.ru THEN T.ru[key] ELSE T.en[key]

\* The length of the data row of an issue: its four fields, a backslash for each
\* delimiter of the message and of the component, and the 14 characters around them
RowLen(issue) ==
    14 + Len(issue.severity) + Len(issue.message) + Count(issue.message, "|")
       + Len(issue.component) + Count(issue.component, "|") + Len(issue.line)

RECURSIVE RowsLenFrom(_, _)
RowsLenFrom(issues, i) ==
    IF i > Len(issues) THEN 0 ELSE RowLen(issues[i]) + RowsLenFrom(issues, i + 1)

DelimiterRow == <<"|", "-", "-", "-", "-", "-", "-", "-", "-", "-", "-", "|", "-", "-", "-", "-", "-", "-", "-", "-", "-", "|", "-", "-", "-", "-", "-", "-", "-", "-", "-", "-", "-", "|", "-", "-", "-", "-", "-", "-", "|", "\n">>

\* The i-th data row of a table, counted back from the end of the table
RowOf(table, issues, i) ==
    SubSeq(table, Len(table) - RowsLenFrom(issues, i) + 1,
                  Len(table) - RowsLenFrom(issues, i + 1))

\* What precedes the data rows of a table
AboveRows(table, issues) == SubSeq(table, 1, Len(table) - RowsLenFrom(issues, 1))

\* The header row of a table: what precedes the delimiter row
HeaderRowOf(table, issues) ==
    SubSeq(table, 1, Len(table) - RowsLenFrom(issues, 1) - Len(DelimiterRow))

\* The four cells of the data row of an issue, by position
RowCells(row, issue) ==
    LET messageLen == Len(issue.message) + Count(issue.message, "|")
        componentLen == Len(issue.component) + Count(issue.component, "|")
        s == 3
        m == s + Len(issue.severity) + 3
        c == m + messageLen + 3
        l == c + componentLen + 3
    IN  <<SubSeq(row, s, s + Len(issue.severity) - 1),
          SubSeq(row, m, m + messageLen - 1),
          SubSeq(row, c, c + componentLen - 1),
          SubSeq(row, l, l + Len(issue.line) - 1)>>

\* A row of four cells
Row(cells) ==
    <<"|", " ">> \o cells[1] \o <<" ", "|", " ">> \o cells[2] \o <<" ", "|", " ">> \o cells[3] \o <<" ", "|", " ">> \o cells[4]
    \o <<" ", "|", "\n">>

Newlines(issue) ==
    Count(issue.severity, "\n") + Count(issue.message, "\n")
    + Count(issue.component, "\n") + Count(issue.line, "\n")

RECURSIVE NewlinesFrom(_, _)
NewlinesFrom(issues, i) ==
    IF i > Len(issues) THEN 0 ELSE Newlines(issues[i]) + NewlinesFrom(issues, i + 1)

Unparseable(project) ==
    project.last_analysis # None /\ parse_from_rfc3339(project.last_analysis[1]) = None

\* The section of a project whose last-analysis line shows date
Section(project, date) ==
    <<"#", "#", " ">> \o ResolvedLabel(<<"p", "r", "o", "j", "e", "c", "t">>) \o <<":", " ">> \o project.project_key \o <<"\n", "\n">>
    \o <<"*", "*">> \o ResolvedLabel(<<"l", "a", "s", "t", "_", "a", "n", "a", "l", "y", "s", "i", "s">>) \o <<":", "*", "*", " ">> \o date \o <<"\n", "\n">>
    \o <<"*", "*">> \o ResolvedLabel(<<"l", "a", "t", "e", "s", "t", "_", "i", "s", "s", "u", "e", "s">>) \o <<":", "*", "*", "\n", "\n">>
    \o generate_issues_table(LoadTranslations(dataset), new(arg_language), project.issues)
    \o <<"\n", "\n", "-", "-", "-", "\n", "\n">>

\* The date a section shows: the label for no timestamp, the raw text for one
\* that does not parse, the formatted date otherwise
DateShown(project) ==
    IF project.last_analysis = None THEN ResolvedLabel(<<"n", "o", "_", "a", "n", "a", "l", "y", "s", "i", "s", "_", "a", "v", "a", "i", "l", "a", "b", "l", "e">>)
    ELSE IF Unparseable(project) THEN project.last_analysis[1]
    ELSE format_analysis_date(LoadTranslations(dataset), new(arg_language),
                              project.last_analysis)

\* The sections of the projects from the i-th on, in order
RECURSIVE SectionsFrom(_, _)
SectionsFrom(projects, i) ==
    IF i > Len(projects) THEN <<>>
    ELSE Section(projects[i], DateShown(projects[i])) \o SectionsFrom(projects, i + 1)

\* The title line, the generation line for the clock reading now, the separator
Preamble(now) ==
    <<"#", " ">> \o ResolvedLabel(<<"r", "e", "p", "o", "r", "t", "_", "t", "i", "t", "l", "e">>) \o <<"\n", "\n">>
    \o ResolvedLabel(<<"g", "e", "n", "e", "r", "a", "t", "e", "d">>) \o <<":", " ">> \o FormatNaive(now) \o <<"\n", "\n">>
    \o <<"-", "-", "-", "\n", "\n">>

\* The positions of a report that hold the generation time
TimestampWindow ==
    LET before == Len(<<"#", " ">> \o ResolvedLabel(<<"r", "e", "p", "o", "r", "t", "_", "t", "i", "t", "l", "e">>) \o <<"\n", "\n">>
                      \o ResolvedLabel(<<"g", "e", "n", "e", "r", "a", "t", "e", "d">>) \o <<":", " ">>)
    IN  (before + 1)..(before + 19)

-----------------------------------------------------------------------------
(* Claims *)

\* C1: get_translation(key, language) returns the selected language's entry
\* when the key is in that table, otherwise the English entry when the key is
\* in the English table, otherwise the key itself; a key in no table resolves
\* to itself in both languages.
C1_ThreeTierLookup ==
    (entry = "get_translation" /\ ret_string # None) =>
        LET T == LoadTranslations(dataset)
            selected == IF arg_language = "Ru" THEN T.ru ELSE T.en
        IN  /\ TRANSLATIONS = Some(T)
            /\ arg_s \in DOMAIN selected => ret_string = Some(selected[arg_s])
            /\ (arg_s \notin DOMAIN selected /\ arg_s \in DOMAIN T.en)
                   => ret_string = Some(T.en[arg_s])
            /\ (arg_s \notin DOMAIN selected /\ arg_s \notin DOMAIN T.en)
                   => ret_string = Some(arg_s)
            /\ arg_s = <<"n", "o", "n", "_", "e", "x", "i", "s", "t", "e", "n", "t", "_", "k", "e", "y">> => ret_string = Some(<<"n", "o", "n", "_", "e", "x", "i", "s", "t", "e", "n", "t", "_", "k", "e", "y">>)

\* C1 witness: a key missing from the Russian table resolved through the English one
C1_Witness ==
    /\ entry = "get_translation"
    /\ arg_language = "Ru"
    /\ arg_s = <<"s", "e", "v", "e", "r", "i", "t", "y">>
    /\ dataset = "malformed"
    /\ ret_string = Some(<<"S", "e", "v", "e", "r", "i", "t", "y">>)

\* C2: Language::from_str is total and case-insensitive: "ru" in any case gives
\* Ru, every other input (the empty string, "en" in any case, unknown codes)
\* gives En.
C2_FromStrTotalCaseInsensitive ==
    (entry = "from_str" /\ ret_language # None) =>
        /\ ret_language[1] \in Languages
        /\ ret_language[1] = "Ru" <=>
               arg_s \in {<<"r", "u">>, <<"R", "u">>, <<"r", "U">>, <<"R", "U">>}
        /\ arg_s \in {<<>>, <<"e", "n">>, <<"E", "N">>, <<"E", "n">>, <<"e", "N">>, <<"f">>, <<"f", "r">>}
               => ret_language = Some("En")

\* C2 witness: an upper-case "RU" normalised to Ru
C2_Witness ==
    /\ entry = "from_str"
    /\ arg_s = <<"R", "U">>
    /\ ret_language = Some("Ru")

\* C3: every timestamp that parses as RFC-3339, whatever its UTC offset, is
\* rendered as the date and time of that instant in UTC, "YYYY-MM-DD HH:MM:SS UTC".
C3_RendersInstantInUtc ==
    (/\ entry = "format_analysis_date"
     /\ ret_string # None
     /\ arg_date # None
     /\ parse_from_rfc3339(arg_date[1]) # None) =>
        ret_string = Some(FormatNaive(parse_from_rfc3339(arg_date[1])[1].utc) \o <<" ", "U", "T", "C">>)

\* C4: a timestamp that is present but does not parse as RFC-3339 is shown as
\* the raw string, unchanged, and the report is not cut short: it ends with the
\* complete section of that project followed by the section of every later project.
C4_UnparseableShownRaw ==
    /\ (/\ entry = "format_analysis_date"
        /\ ret_string # None
        /\ arg_date # None
        /\ parse_from_rfc3339(arg_date[1]) = None) => ret_string = arg_date
    /\ (entry = "generate_report" /\ ret_string # None) =>
           \A i \in DOMAIN arg_projects :
               Unparseable(arg_projects[i]) =>
                   IsSuffix(Section(arg_projects[i], arg_projects[i].last_analysis[1])
                                \o SectionsFrom(arg_projects, i + 1),
                            ret_string[1])

\* C4 witness: a report whose first project has an unparseable timestamp and
\* whose second project follows it
C4_Witness ==
    /\ entry = "generate_report"
    /\ ret_string # None
    /\ arg_projects = <<Project3, Project1>>
    /\ Occurrences(<<":", "*", "*", " ", "i", "n", "v", "a", "l", "i", "d", "-", "d", "a", "t", "e", "\n", "\n">>, ret_string[1]) = 1

\* C5: a project without a timestamp shows the label "no_analysis_available" of
\* the generator's language in place of the date, in both languages.
C5_AbsentShowsLabel ==
    /\ (entry = "format_analysis_date" /\ ret_string # None /\ arg_date = None) =>
           /\ ret_string = Some(ResolvedLabel(<<"n", "o", "_", "a", "n", "a", "l", "y", "s", "i", "s", "_", "a", "v", "a", "i", "l", "a", "b", "l", "e">>))
           /\ (dataset = "bundled" /\ arg_language = "En")
                  => ret_string = Some(<<"U+26A0", "U+FE0F", " ", "N", "o", " ", "a", "n", "a", "l", "y", "s", "i", "s", " ", "a", "v", "a", "i", "l", "a", "b", "l", "e">>)
           /\ (dataset = "bundled" /\ arg_language = "Ru")
                  => ret_string = Some(<<"U+26A0", "U+FE0F", " ", "U+0410", "U+043D", "U+0430", "U+043B", "U+0438", "U+0437", " ", "U+043D", "U+0435", "U+0434", "U+043E", "U+0441", "U+0442", "U+0443", "U+043F", "U+0435", "U+043D">>)
    /\ (entry = "generate_report" /\ ret_string # None) =>
           \A i \in DOMAIN arg_projects :
               arg_projects[i].last_analysis = None =>
                   IsSuffix(Section(arg_projects[i],
                                    ResolvedLabel(<<"n", "o", "_", "a", "n", "a", "l", "y", "s", "i", "s", "_", "a", "v", "a", "i", "l", "a", "b", "l", "e">>))
                                \o SectionsFrom(arg_projects, i + 1),
                            ret_string[1])

\* C5 witness: the Russian label returned for an absent timestamp
C5_Witness ==
    /\ entry = "format_analysis_date"
    /\ arg_date = None
    /\ arg_language = "Ru"
    /\ dataset = "bundled"
    /\ ret_string = Some(<<"U+26A0", "U+FE0F", " ", "U+0410", "U+043D", "U+0430", "U+043B", "U+0438", "U+0437", " ", "U+043D", "U+0435", "U+0434", "U+043E", "U+0441", "U+0442", "U+0443", "U+043F", "U+0435", "U+043D">>)

\* C6: in the row of every issue, each delimiter of the message and of the
\* component is preceded by a backslash, so that the message and the component
\* add no cell to the row when it is split on the unescaped delimiters: the row
\* has its four cells plus those the delimiters of severity and line open.
C6_DelimitersEscaped ==
    (entry = "generate_issues_table" /\ ret_string # None /\ arg_issues # <<>>) =>
        \A i \in DOMAIN arg_issues :
            LET issue == arg_issues[i]
                row == RowOf(ret_string[1], arg_issues, i)
                cells == RowCells(row, issue)
            IN  /\ UnescapedPipes(cells[2]) = {}
                /\ UnescapedPipes(cells[3]) = {}
                /\ Count(cells[2], "|") = Count(issue.message, "|")
                /\ Count(cells[3], "|") = Count(issue.component, "|")
                /\ Unescape(cells[2]) = issue.message
                /\ Unescape(cells[3]) = issue.component
                /\ CellCount(row) = 4 + Cardinality(UnescapedPipes(issue.severity))
                                      + Cardinality(UnescapedPipes(issue.line))
                /\ (Count(issue.severity, "|") = 0 /\ Count(issue.line, "|") = 0)
                       => CellCount(row) = CellCount(HeaderRowOf(ret_string[1], arg_issues))

\* C6 witness: the row of a message with three delimiters, split into four cells
C6_Witness ==
    /\ entry = "generate_issues_table"
    /\ arg_issues = <<Issue2>>
    /\ ret_string # None
    /\ Occurrences(<<"|", " ", "U", "s", "e", " ", "\\", "|", "\\", "|", " ", "i", "n", "s", "t", "e", "a", "d", " ", "o", "f", " ", "\\", "|", " ", "|">>, ret_string[1]) = 1
    /\ CellCount(RowOf(ret_string[1], arg_issues, 1)) = 4

\* C7: for n >= 1 issues the table is n + 2 rows: the header row with the labels
\* severity, message, component, line in that order, the delimiter row, then one
\* data row per issue in input order, the i-th holding the severity, message,
\* component and line of the i-th issue in that column order.
C7_TableRows ==
    (entry = "generate_issues_table" /\ ret_string # None /\ arg_issues # <<>>) =>
        LET table == ret_string[1]
            n == Len(arg_issues)
        IN  /\ AboveRows(table, arg_issues) =
                   Row(<<ResolvedLabel(<<"s", "e", "v", "e", "r", "i", "t", "y">>), ResolvedLabel(<<"m", "e", "s", "s", "a", "g", "e">>),
                         ResolvedLabel(<<"c", "o", "m", "p", "o", "n", "e", "n", "t">>), ResolvedLabel(<<"l", "i", "n", "e">>)>>)
                   \o DelimiterRow
            /\ \A i \in 1..n :
                   LET row == RowOf(table, arg_issues, i)
                       cells == RowCells(row, arg_issues[i])
                   IN  /\ row = Row(cells)
                       /\ cells[1] = arg_issues[i].severity
                       /\ Unescape(cells[2]) = arg_issues[i].message
                       /\ Unescape(cells[3]) = arg_issues[i].component
                       /\ cells[4] = arg_issues[i].line
            /\ Count(table, "\n") = n + 2 + NewlinesFrom(arg_issues, 1)

\* C7 witness: a table of two issues, four lines, the rows in input order
C7_Witness ==
    /\ entry = "generate_issues_table"
    /\ arg_issues = <<Issue2, Issue1>>
    /\ ret_string # None
    /\ Count(ret_string[1], "\n") = 4
    /\ IsSuffix(<<"|", " ", "M", "A", "J", "O", "R", " ", "|", " ", "U", "s", "e", " ", "\\", "|", "\\", "|", " ", "i", "n", "s", "t", "e", "a", "d", " ", "o", "f", " ", "\\", "|", " ", "|", " ", "L", "o", "g", "i", "c", ".", "j", "a", "v", "a", " ", "|", " ", "1", "0", " ", "|", "\n">>
                \o <<"|", " ", "C", "R", "I", "T", "I", "C", "A", "L", " ", "|", " ", "N", "u", "l", "l", "P", "o", "i", "n", "t", "e", "r", " ", "|", " ", "M", "a", "i", "n", ".", "j", "a", "v", "a", " ", "|", " ", "4", "2", " ", "|", "\n">>, ret_string[1])

\* C8: for no issues the body is exactly the label "no_open_issues" of the
\* generator's language: no header row, no delimiter row, no data row.
C8_EmptyShowsLabel ==
    (entry = "generate_issues_table" /\ ret_string # None /\ arg_issues = <<>>) =>
        /\ ret_string = Some(ResolvedLabel(<<"n", "o", "_", "o", "p", "e", "n", "_", "i", "s", "s", "u", "e", "s">>))
        /\ Count(ret_string[1], "|") = 0
        /\ Count(ret_string[1], "\n") = 0
        /\ (dataset = "bundled" /\ arg_language = "En")
               => ret_string = Some(<<"U+2705", " ", "N", "o", " ", "o", "p", "e", "n", " ", "i", "s", "s", "u", "e", "s", " ", "f", "o", "u", "n", "d", ".">>)
        /\ (dataset = "bundled" /\ arg_language = "Ru")
               => ret_string = Some(<<"U+2705", " ", "U+041E", "U+0442", "U+043A", "U+0440", "U+044B", "U+0442", "U+044B", "U+0445", " ", "U+043F", "U+0440", "U+043E", "U+0431", "U+043B", "U+0435", "U+043C", " ", "U+043D", "U+0435", " ", "U+043D", "U+0430", "U+0439", "U+0434", "U+0435", "U+043D", "U+043E", ".">>)

\* C8 witness: the Russian label returned for an empty issue list
C8_Witness ==
    /\ entry = "generate_issues_table"
    /\ arg_issues = <<>>
    /\ arg_language = "Ru"
    /\ dataset = "bundled"
    /\ ret_string = Some(<<"U+2705", " ", "U+041E", "U+0442", "U+043A", "U+0440", "U+044B", "U+0442", "U+044B", "U+0445", " ", "U+043F", "U+0440", "U+043E", "U+0431", "U+043B", "U+0435", "U+043C", " ", "U+043D", "U+0435", " ", "U+043D", "U+0430", "U+0439", "U+0434", "U+0435", "U+043D", "U+043E", ".">>)

\* C9: a report is the title line, the generation line and a separator, then
\* exactly one section per project in input order (heading with the project
\* key, last-analysis line, issues header, issues body), each ending with a
\* separator, the last included; for no projects it is the title, the
\* generation line and the separator, with no project heading.
C9_ReportStructure ==
    \A k \in DOMAIN reports :
        LET text == reports[k].text
        IN  /\ text = Preamble(reports[k].now) \o SectionsFrom(arg_projects, 1)
            /\ IsSuffix(<<"\n", "\n", "-", "-", "-", "\n", "\n">>, text)
            /\ Occurrences(<<"#", "#", " ">> \o ResolvedLabel(<<"p", "r", "o", "j", "e", "c", "t">>) \o <<":", " ">>, text)
                   = Len(arg_projects)
            /\ Occurrences(<<"-", "-", "-", "\n", "\n">>, text) = 1 + Len(arg_projects)
            /\ arg_projects = <<>> => Occurrences(<<"#", "#", " ">>, text) = 0

\* C9 witness: a report of two projects, with two headings and three separators
C9_Witness ==
    /\ entry = "generate_report"
    /\ arg_projects = <<Project2, Project1>>
    /\ arg_language = "En"
    /\ dataset = "bundled"
    /\ Len(reports) >= 1
    /\ Occurrences(<<"#", "#", " ", "U+1F4C1", " ", "P", "r", "o", "j", "e", "c", "t", ":", " ", "p", "r", "o", "j", "e", "c", "t">>, reports[1].text) = 2
    /\ Occurrences(<<"\n", "\n", "-", "-", "-", "\n", "\n">>, reports[1].text) = 3

-----------------------------------------------------------------------------
(* Claims about the client and main *)

\* The language text a run of main selects, if it selects one
LanguageSelected == arg_source(cli, env, "language")

\* What a run of main has delivered: the printed text, or the file's content
Delivered ==
    IF output_file # None THEN output_file[1].content ELSE stdout

\* C11: a run of main that selects a language text naming no supported language
\* (such as "fr") is not turned away for it, and when it succeeds it delivers
\* exactly the report the default language gives for the same project data and
\* clock reading.
C11_UnsupportedLanguageAsDefault ==
    (/\ entry = "main"
     /\ pc = "exit"
     /\ LanguageSelected # None
     /\ to_lowercase(LanguageSelected[1]) \notin {<<"e", "n">>, <<"r", "u">>})
    => /\ exit_code # Some(ExitUsage)
       /\ exit_code = Some(ExitSuccess)
          => Delivered = generate_report(LoadTranslations(dataset), new("En"),
                                         main_projects_data, clock)

\* The section of a project with the built-in English labels
EnglishSection(project) ==
    <<"#", "#", " ", "P", "r", "o", "j", "e", "c", "t", ":", " ">> \o project.project_key \o <<"\n", "\n">>
    \o <<"*", "*", "L", "a", "s", "t", " ", "A", "n", "a", "l", "y", "s", "i", "s", ":", "*", "*", " ">>
    \o (IF project.last_analysis = None THEN <<"N", "o", " ", "a", "n", "a", "l", "y", "s", "i", "s", " ", "a", "v", "a", "i", "l", "a", "b", "l", "e">>
        ELSE format_analysis_date(FallbackTranslations, new("En"), project.last_analysis))
    \o <<"\n", "\n">>
    \o <<"*", "*", "L", "a", "t", "e", "s", "t", " ", "I", "s", "s", "u", "e", "s", ":", "*", "*", "\n", "\n">>
    \o (IF project.issues = <<>> THEN <<"N", "o", " ", "o", "p", "e", "n", " ", "i", "s", "s", "u", "e", "s", " ", "f", "o", "u", "n", "d", ".">>
        ELSE <<"|", " ", "S", "e", "v", "e", "r", "i", "t", "y", " ", "|", " ", "M", "e", "s", "s", "a", "g", "e", " ", "|", " ", "C", "o", "m", "p", "o", "n", "e", "n", "t", " ", "|", " ", "L", "i", "n", "e", " ", "|", "\n">> \o DelimiterRow
             \o for_issue_in(<<>>, project.issues, 1))
    \o <<"\n", "\n", "-", "-", "-", "\n", "\n">>

RECURSIVE EnglishSectionsFrom(_, _)
EnglishSectionsFrom(projects, i) ==
    IF i > Len(projects) THEN <<>>
    ELSE EnglishSection(projects[i]) \o EnglishSectionsFrom(projects, i + 1)

\* C12: when the translation dataset does not parse, the tables are the built-in
\* ones: the default table holds every label key with a text of its own and the
\* alternate table is empty; every call then succeeds in both languages and
\* shows the built-in English label wherever a label stands, never a raw key.
C12_MalformedDatasetFallsBack ==
    dataset = "malformed" =>
        /\ TRANSLATIONS # None =>
              /\ LabelKeys \subseteq DOMAIN TRANSLATIONS[1].en
              /\ DOMAIN TRANSLATIONS[1].ru = {}
              /\ \A key \in LabelKeys : TRANSLATIONS[1].en[key] \notin {<<>>, key}
        /\ (entry = "get_translation" /\ arg_s \in LabelKeys /\ ret_string # None)
           => ret_string[1] \notin {<<>>, arg_s}
        /\ (entry = "format_analysis_date" /\ arg_date = None /\ ret_string # None)
           => ret_string[1] = <<"N", "o", " ", "a", "n", "a", "l", "y", "s", "i", "s", " ", "a", "v", "a", "i", "l", "a", "b", "l", "e">>
        /\ (entry = "generate_issues_table" /\ ret_string # None)
           => IF arg_issues = <<>> THEN ret_string[1] = <<"N", "o", " ", "o", "p", "e", "n", " ", "i", "s", "s", "u", "e", "s", " ", "f", "o", "u", "n", "d", ".">>
              ELSE IsPrefix(<<"|", " ", "S", "e", "v", "e", "r", "i", "t", "y", " ", "|", " ", "M", "e", "s", "s", "a", "g", "e", " ", "|", " ", "C", "o", "m", "p", "o", "n", "e", "n", "t", " ", "|", " ", "L", "i", "n", "e", " ", "|", "\n">>, ret_string[1])
        /\ \A k \in DOMAIN reports :
              reports[k].text = <<"#", " ", "S", "o", "n", "a", "r", "Q", "u", "b", "e", " ", "A", "n", "a", "l", "y", "s", "i", "s", " ", "R", "e", "p", "o", "r", "t", "\n", "\n", "G", "e", "n", "e", "r", "a", "t", "e", "d", ":", " ">>
                                \o FormatNaive(reports[k].now) \o <<"\n", "\n", "-", "-", "-", "\n", "\n">>
                                \o EnglishSectionsFrom(arg_projects, 1)

\* A report in Russian made from the built-in tables, for two projects of which
\* one has issues and one has neither issues nor a timestamp
C12_Witness ==
    /\ dataset = "malformed"
    /\ entry = "generate_report"
    /\ arg_language = "Ru"
    /\ reports # <<>>
    /\ Len(arg_projects) = 2
    /\ \E i, j \in 1..2 : /\ arg_projects[i].issues # <<>>
                          /\ arg_projects[j].issues = <<>>
                          /\ arg_projects[j].last_analysis = None

\* C13: with the bundled dataset loaded, get_translation(key, language) returns,
\* for every key of the default table and each language, a text that is
\* neither empty nor the key itself.
C13_EveryLabelTranslated ==
    (/\ dataset = "bundled"
     /\ entry = "get_translation"
     /\ ret_string # None
     /\ arg_s \in DOMAIN TRANSLATIONS[1].en)
    => /\ ret_string[1] # <<>>
       /\ ret_string[1] # arg_s

\* The label of the "line" column looked up in Russian in the bundled tables
C13_Witness ==
    /\ dataset = "bundled"
    /\ entry = "get_translation"
    /\ arg_language = "Ru"
    /\ arg_s = <<"l", "i", "n", "e">>
    /\ ret_string # None
    /\ DOMAIN TRANSLATIONS[1].en = LabelKeys

\* The backslashes and the delimiters of the four fields of an issue
FieldsCount(issue, c) ==
    Count(issue.severity, c) + Count(issue.message, c) + Count(issue.component, c)
    + Count(issue.line, c)

\* C14: in every data row the severity and the line stand exactly as given,
\* whatever string they are; the only characters a row adds to its fields are
\* the backslashes in front of the delimiters of the message and the component.
C14_SeverityAndLineVerbatim ==
    (entry = "generate_issues_table" /\ ret_string # None /\ arg_issues # <<>>) =>
        \A i \in DOMAIN arg_issues :
            LET issue == arg_issues[i]
                row == RowOf(ret_string[1], arg_issues, i)
            IN  /\ IsPrefix(<<"|", " ">> \o issue.severity \o <<" ", "|", " ">>, row)
                /\ IsSuffix(<<" ", "|", " ">> \o issue.line \o <<" ", "|", "\n">>, row)
                /\ Count(row, "|") = 5 + FieldsCount(issue, "|")
                /\ Count(row, "\\") = FieldsCount(issue, "\\")
                                      + Count(issue.message, "|")
                                      + Count(issue.component, "|")
                /\ Len(row) = 14 + Len(issue.severity) + Len(issue.message)
                              + Len(issue.component) + Len(issue.line)
                              + Count(issue.message, "|") + Count(issue.component, "|")

\* A row whose severity and line hold a delimiter, shown without a backslash
C14_Witness ==
    /\ entry = "generate_issues_table"
    /\ ret_string # None
    /\ Len(arg_issues) = 1
    /\ arg_issues[1].severity = <<"a", "|", "b">>
    /\ arg_issues[1].line = <<"|">>
    /\ IsPrefix(<<"|", " ", "a", "|", "b", " ", "|", " ">>, RowOf(ret_string[1], arg_issues, 1))
    /\ IsSuffix(<<" ", "|", " ", "|", " ", "|", "\n">>, ret_string[1])

\* C20 as stated: whatever the four fields of an issue hold, its data row splits
\* on unescaped delimiters into exactly four cells, as many as the header row.
C20_AlwaysFourCells ==
    (entry = "generate_issues_table" /\ ret_string # None /\ arg_issues # <<>>) =>
        \A i \in DOMAIN arg_issues :
            /\ CellCount(RowOf(ret_string[1], arg_issues, i)) = 4
            /\ CellCount(RowOf(ret_string[1], arg_issues, i))
               = CellCount(HeaderRowOf(ret_string[1], arg_issues))

\* C20, amended: the header row has four cells, and so has the data row of every
\* issue whose severity and line hold no delimiter, whatever its message and
\* component hold; a delimiter that no backslash precedes in the severity or in
\* the line splits the row into more than four cells.
C20_FourCellsForDelimiterFreeSeverityAndLine ==
    (entry = "generate_issues_table" /\ ret_string # None /\ arg_issues # <<>>) =>
        /\ CellCount(HeaderRowOf(ret_string[1], arg_issues)) = 4
        /\ \A i \in DOMAIN arg_issues :
              LET issue == arg_issues[i]
                  cell_count == CellCount(RowOf(ret_string[1], arg_issues, i))
              IN  /\ (Count(issue.severity, "|") = 0 /\ Count(issue.line, "|") = 0)
                     => cell_count = 4
                  /\ (UnescapedPipes(issue.severity) # {} \/ UnescapedPipes(issue.line) # {})
                     => cell_count > 4

\* A row of four cells whose message and component hold delimiters
C20_Witness ==
    /\ entry = "generate_issues_table"
    /\ ret_string # None
    /\ Len(arg_issues) = 1
    /\ arg_issues[1].severity = <<"M", "A", "J", "O", "R">>
    /\ arg_issues[1].message = <<"|", "|">>
    /\ arg_issues[1].component = <<"a", "|", "b">>
    /\ arg_issues[1].line = <<"N", "/", "A">>
    /\ CellCount(RowOf(ret_string[1], arg_issues, 1)) = 4

\* The function the latest request came from
LatestCall ==
    IF IsSuffix(<<"/", "a", "p", "i", "/", "i", "s", "s", "u", "e", "s", "/", "s", "e", "a", "r", "c", "h">>, requests[Len(requests)].url)
    THEN "get_latest_issues" ELSE "get_last_analysis_date"

\* A fetch that failed: the request was not answered, or answered with a
\* non-success status, or with a body that does not decode
FetchFailed(resp) == ~resp.sent \/ resp.status \notin 200..299 \/ resp.body = None

\* C15: whenever a fetch fails (network error, non-success status or decode
\* failure), the fetching function returns no timestamp, or an empty issue list,
\* and not an error; a run of main that has begun to fetch therefore ends with a
\* report holding a section for every requested project.
C15_FetchFailuresDegrade ==
    /\ (fetch_result # None /\ FetchFailed(http_response[1]))
       => fetch_result[1] = (IF LatestCall = "get_latest_issues" THEN Ok(<<>>)
                             ELSE Ok(None))
    /\ (entry = "main" /\ pc = "exit" /\ requests # <<>>)
       => /\ ret_string # None
          /\ Len(main_projects_data) = Len(project_keys)
          /\ Occurrences(<<"\n", "#", "#", " ">>, ret_string[1]) = Len(project_keys)

\* C16: when the service answers with a non-success status,
\* get_last_analysis_date returns Ok with no timestamp and get_latest_issues
\* returns Ok with an empty list, whatever the body; neither returns an error,
\* and a run of main goes on.
C16_NonSuccessStatusIsNotAnError ==
    (fetch_result # None /\ http_response[1].sent
     /\ http_response[1].status \notin 200..299)
    => /\ IsOk(fetch_result[1])
       /\ LatestCall = "get_last_analysis_date" => fetch_result[1][2] = None
       /\ LatestCall = "get_latest_issues" => Len(fetch_result[1][2]) = 0
       /\ entry = "main" => exit_code # Some(ExitFailure) \/ ret_string # None

\* Status 404 answered to get_last_analysis_date, with a body that would decode
C16_Witness ==
    /\ entry = "get_last_analysis_date"
    /\ fetch_result = Some(Ok(None))
    /\ http_response[1].status = 404
    /\ http_response[1].body = Some(<<Date1>>)

\* C17: for a response that decodes, get_latest_issues returns one IssueData per
\* issue of the response, in response order; each of its fields is the text of
\* the response, or "N/A" where the response has none, and a line number is
\* rendered as its decimal text.
C17_IssueDataFromResponse ==
    (/\ fetch_result # None
     /\ LatestCall = "get_latest_issues"
     /\ ~FetchFailed(http_response[1]))
    => /\ IsOk(fetch_result[1])
       /\ LET body == http_response[1].body[1]
              issues == fetch_result[1][2]
          IN  /\ Len(issues) = Len(body)
              /\ \A k \in DOMAIN body :
                    /\ DOMAIN issues[k] = {"severity", "message", "component", "line"}
                    /\ issues[k].severity = IF body[k].severity = None THEN <<"N", "/", "A">>
                                            ELSE body[k].severity[1]
                    /\ issues[k].message = IF body[k].message = None THEN <<"N", "/", "A">>
                                           ELSE body[k].message[1]
                    /\ issues[k].component = IF body[k].component = None THEN <<"N", "/", "A">>
                                             ELSE body[k].component[1]
                    /\ IF body[k].line = None THEN issues[k].line = <<"N", "/", "A">>
                       ELSE /\ parse_i32(issues[k].line) = body[k].line
                            /\ issues[k].line[1] # "+"
                            /\ Len(issues[k].line) > 1 => issues[k].line[1] # "0"
                            /\ Len(issues[k].line) > 2 => issues[k].line[2] # "0"
                                                          \/ issues[k].line[1] # "-"

\* Two issues returned in response order: a negative line number and a present
\* but empty message, then an issue with nothing but its severity
C17_Witness ==
    /\ entry = "get_latest_issues"
    /\ http_response # None
    /\ http_response[1].body = Some(<<Json3, Json2>>)
    /\ fetch_result = Some(Ok(<<IssueData(<<"N", "/", "A">>, <<>>, <<"N", "/", "A">>, <<"-", "7">>),
                                IssueData(<<"M", "A", "J", "O", "R">>, <<"N", "/", "A">>, <<"N", "/", "A">>, <<"N", "/", "A">>)>>))

\* The required options that neither the command line nor the environment gives
MissingRequired == {name \in {"url", "token", "projects"} : cli[name] = None /\ env[name] = None}

\* C18: a run of main that lacks the URL, the token or the project list on the
\* command line and in the environment sends no request and produces no report,
\* neither printed nor written, and once past its start has exited with a
\* non-zero status.
C18_MissingRequiredOptionIsAnError ==
    (entry = "main" /\ MissingRequired # {})
    => /\ requests = <<>>
       /\ client = None
       /\ ret_string = None
       /\ stdout = <<>>
       /\ output_file = None
       /\ pc \in {"start", "exit"}
       /\ pc = "exit" => exit_code # None /\ exit_code[1] # 0

\* A run given the URL and the project list but no token has exited with status 1
C18_Witness ==
    /\ entry = "main"
    /\ pc = "exit"
    /\ MissingRequired = {"token"}
    /\ exit_code = Some(ExitFailure)
    /\ requests = <<>>

\* The characters of s that are neither white space nor a comma
StripAll(s) == SelectSeq(s, LAMBDA c : c \notin WhiteSpace \cup {","})

\* The texts of a sequence put end to end
RECURSIVE Flatten(_)
Flatten(texts) == IF texts = <<>> THEN <<>> ELSE texts[1] \o Flatten(Tail(texts))

\* Nothing of a report exists: none generated, none printed, none written
NoOutput == ret_string = None /\ stdout = <<>> /\ output_file = None

\* C19: in a run of main the requests follow the comma-separated project list in
\* order, for each project the analysis date and then the issues; a report
\* exists only once both fetches of every project have returned; a fetch that
\* returns an error is the last request of the run, which exits with a failure
\* and with nothing generated, printed or written.
C19_FetchesInOrderThenReport ==
    entry = "main" =>
        IF client = None THEN requests = <<>> /\ NoOutput
        ELSE LET keys == project_keys
                 n == Len(requests)
                 done == Len(main_projects_data)
                 failed == fetch_result # None /\ IsErr(fetch_result[1])
             IN  /\ Len(keys) = Count(main_args[1].projects[1], ",") + 1
                 /\ StripAll(Flatten(keys)) = StripAll(main_args[1].projects[1])
                 /\ n <= 2 * Len(keys)
                 /\ \A k \in 1..n :
                       requests[k] =
                          IF k % 2 = 1
                          THEN analyses_request(client[1], keys[(k + 1) \div 2])
                          ELSE issues_request(client[1], keys[k \div 2],
                                              main_args[1].max_issues)
                 /\ \A i \in 1..done : main_projects_data[i].project_key = keys[i]
                 /\ ~failed => done = n \div 2
                 /\ failed => /\ pc = "exit"
                              /\ exit_code = Some(ExitFailure)
                              /\ n \in {2 * done + 1, 2 * done + 2}
                              /\ NoOutput
                 /\ ~NoOutput => /\ ~failed
                                 /\ n = 2 * Len(keys)
                                 /\ done = Len(keys)
                                 /\ pc = "exit"

\* A run for the list " p1 ,<tab>p2<newline>": four requests, then the report printed
C19_Witness ==
    /\ entry = "main"
    /\ pc = "exit"
    /\ cli["projects"] = Some(<<" ", "p", "1", " ", ",", "\t", "p", "2", "\n">>)
    /\ project_keys = <<<<"p", "1">>, <<"p", "2">>>>
    /\ Len(requests) = 4
    /\ exit_code = Some(ExitSuccess)
    /\ main_args[1].output = None
    /\ stdout = ret_string[1]

\* C21: every ProjectData a run of main builds, and so every one it passes to
\* the report generator, has a project key that is not empty, whatever the
\* project-list text.
C21_ProjectKeysNotEmpty ==
    entry = "main" =>
        \A i \in DOMAIN main_projects_data : main_projects_data[i].project_key # <<>>

\* The report a run of main generated: the text generate_report gives for the
\* data collected, in the language parsed, at the clock reading
WholeReport ==
    generate_report(LoadTranslations(dataset), new(main_args[1].language),
                    main_projects_data, clock)

\* C22: a run of main that exits with success has delivered the whole report to
\* exactly one place: the file at the output path and nothing printed when an
\* output path is given, standard output and no file otherwise; a run whose
\* write to the file failed has exited with a failure.
C22_OneDestination ==
    (entry = "main" /\ pc = "exit") =>
        /\ exit_code = Some(ExitSuccess) =>
              /\ ret_string = Some(WholeReport)
              /\ IF main_args[1].output = None
                 THEN stdout = WholeReport /\ output_file = None
                 ELSE /\ stdout = <<>>
                      /\ output_file = Some([path |-> main_args[1].output[1],
                                             content |-> WholeReport])
        /\ (/\ ret_string # None
            /\ main_args[1].output # None
            /\ output_file # Some([path |-> main_args[1].output[1],
                                   content |-> ret_string[1]]))
           => /\ exit_code = Some(ExitFailure)
              /\ stdout = <<>>
        /\ (ret_string # None /\ main_args[1].output = None) => output_file = None

\* A run given --output report.md for two projects: the report in the file,
\* nothing printed
C22_Witness ==
    /\ entry = "main"
    /\ pc = "exit"
    /\ exit_code = Some(ExitSuccess)
    /\ cli["output"] = Some(OutputPath)
    /\ Len(main_projects_data) = 2
    /\ output_file = Some([path |-> OutputPath, content |-> ret_string[1]])
    /\ stdout = <<>>
=============================================================================
